---------------------------- MODULE Spec2Model ----------------------------
(***************************************************************************)
(* Engagement analytics of the live-chat scraper: host questions and their *)
(* answers, answerer ranking, conversation threads, community scoring and  *)
(* the orchestrator analyzeEngagement (synchronous and asynchronous), the  *)
(* topic engine (keywords, clusters, trends) and the two streaming routes  *)
(* (chat-api polling and the youtubei live-chat connection).               *)
(*                                                                         *)
(* Conventions of the model                                                *)
(*  - a message text is the sequence of its characters;                    *)
(*  - a timestamp is the value of new Date(ts).getTime(), in milliseconds; *)
(*  - a JavaScript number that is not an integer is an exact fraction      *)
(*    <<numerator, denominator>> in lowest terms, denominator > 0;         *)
(*  - an Array is a sequence, a Map is the sequence of its entries in      *)
(*    insertion order (the order Map.forEach visits them);                 *)
(*  - a message id is the string id of the record, modelled by a number    *)
(*    that is unique within one input;                                     *)
(*  - profileImageUrl is not modelled: it is copied, never computed with.  *)
(***************************************************************************)
EXTENDS Integers, Sequences, FiniteSets, TLC

VARIABLES
    messages,               \* the caller's ChatMessage[] (the input array)
    hostIdentifier,         \* the manual host name; "" when not supplied
    hostName,               \* hostName argument of the component calls
    hostQuestions,          \* result of extractHostQuestions
    questionAnswerers,      \* result of rankQuestionAnswerers
    conversationThreads,    \* result of detectThreads
    answerersMap,           \* the Map author -> questionsAnswered given to the scorer
    activeCommunityMembers, \* result of identifyActiveCommunityMembers
    reports,                \* the reports analyzeEngagement has returned, in order
    ran,                    \* names of the operations that have returned, in order
    pc,                     \* where the asynchronous analyzeEngagement stands
    apiKey,                 \* whether process.env.OPENAI_API_KEY is set
    localResults,           \* what steps 1 to 3 computed before the await
    response,               \* the Response fetch resolved with
    data,                   \* what response.json() settled with
    warned,                 \* whether console.warn was called
    engineKeywords,         \* result of extractKeywords
    engineClusters,         \* result of clusterByTopic
    engineTrends,           \* result of calculateKeywordTrends
    flaggedMessages,        \* messagesWithHost: result of flagHostMessages
    chatApi,                \* the closure of the chat-api route's stream
    youtubei                \* the closure of the youtubei route's stream

\* the variables of the asynchronous analyzeEngagement
asyncVars == <<pc, apiKey, localResults, response, data, warned>>

vars == <<messages, hostIdentifier, hostName, hostQuestions, questionAnswerers,
          conversationThreads, answerersMap, activeCommunityMembers, reports, ran,
          pc, apiKey, localResults, response, data, warned,
          engineKeywords, engineClusters, engineTrends, flaggedMessages,
          chatApi, youtubei>>

\* the variables of the two streaming routes
routeVars == <<chatApi, youtubei>>

\* no request has reached a streaming route
NoStream == [pc |-> "none"]

RoutesNotStarted ==
    /\ chatApi = NoStream
    /\ youtubei = NoStream

\* the variables of the topic engine's calls
topicVars == <<engineKeywords, engineClusters, engineTrends>>

\* no function of the topic engine has been called
TopicsNotRun ==
    /\ engineKeywords = <<>>
    /\ engineClusters = <<>>
    /\ engineTrends = <<>>

\* localResults before steps 1 to 3 have run
NoLocal == [hostName |-> ""]

\* response before fetch has resolved
NoResponse == "none"

\* data before response.json() has settled
NoBody == [kind |-> "none"]

\* the asynchronous analyzeEngagement has not been called
AsyncNotCalled ==
    /\ pc = "idle"
    /\ apiKey = FALSE
    /\ localResults = NoLocal
    /\ response = NoResponse
    /\ data = NoBody
    /\ warned = FALSE

---------------------------------------------------------------------------
(* Bounds of the model *)

\* longest input of the question/answer specification
MaxMsgs == 3

\* longest enumerated input of the threading specification
MaxThreadMsgs == 6

\* number of times analyzeEngagement is called on one input
MaxCalls == 2

---------------------------------------------------------------------------
(* Generic helpers: arrays *)

Min(a, b) == IF a <= b THEN a ELSE b
Max(a, b) == IF a >= b THEN a ELSE b

\* Array.prototype.slice(0, n)
Take(s, n) == SubSeq(s, 1, Min(n, Len(s)))

\* Array.prototype.slice(n)
Drop(s, n) == SubSeq(s, Min(n, Len(s)) + 1, Len(s))

Range(s) == {s[i] : i \in 1..Len(s)}

\* Math.min(...S), Math.max(...S) of a non-empty S
SetMin(S) == CHOOSE x \in S : \A y \in S : x <= y
SetMax(S) == CHOOSE x \in S : \A y \in S : x >= y

\* new Map(): no entry
EmptyMap == [a \in {} |-> 0]

\* map.get(key) || 0
GetOrZero(map, key) == IF key \in DOMAIN map THEN map[key] ELSE 0

RECURSIVE SumSeq(_)
SumSeq(s) == IF s = <<>> THEN 0 ELSE Head(s) + SumSeq(Tail(s))

\* Array.prototype.flatMap over nested forEach loops
RECURSIVE Flatten(_)
Flatten(ss) == IF ss = <<>> THEN <<>> ELSE Head(ss) \o Flatten(Tail(ss))

\* Array.from(new Set(s)): the distinct elements in first-seen order
Distinct(s) ==
    LET firsts == {i \in 1..Len(s) : \A j \in 1..(i - 1) : s[j] # s[i]}
    IN  [k \in 1..Cardinality(firsts) |->
            s[CHOOSE i \in firsts : Cardinality({j \in firsts : j <= i}) = k]]

---------------------------------------------------------------------------
(* Exact fractions for JavaScript's non-integer numbers *)

RECURSIVE Gcd(_, _)
Gcd(a, b) == IF b = 0 THEN a ELSE Gcd(b, a % b)

Abs(a) == IF a < 0 THEN -a ELSE a

\* n/d in lowest terms, d > 0
Frac(n, d) ==
    LET g == Gcd(Abs(n), Abs(d))
        s == IF d < 0 THEN -1 ELSE 1
    IN  <<(s * n) \div g, (s * d) \div g>>

FInt(n) == <<n, 1>>
FAdd(x, y) == Frac(x[1] * y[2] + y[1] * x[2], x[2] * y[2])
FSub(x, y) == Frac(x[1] * y[2] - y[1] * x[2], x[2] * y[2])
FMul(x, y) == Frac(x[1] * y[1], x[2] * y[2])
FDiv(x, y) == Frac(x[1] * y[2], x[2] * y[1])
FLe(x, y) == x[1] * y[2] <= y[1] * x[2]
FLt(x, y) == x[1] * y[2] < y[1] * x[2]
FMin(x, y) == IF FLe(x, y) THEN x ELSE y
FMax(x, y) == IF FLe(x, y) THEN y ELSE x
FIsInt(x) == x[2] = 1

\* Math.round: the nearest integer, halves towards +infinity: floor(x + 1/2)
MathRound(x) == (2 * x[1] + x[2]) \div (2 * x[2])

---------------------------------------------------------------------------
(* Text: strings as sequences of characters *)

UpperCase == {"A","B","C","D","E","F","G","H","I","J","K","L","M",
              "N","O","P","Q","R","S","T","U","V","W","X","Y","Z"}

LowerOf == [c \in UpperCase |->
    CASE c = "A" -> "a" [] c = "B" -> "b" [] c = "C" -> "c" [] c = "D" -> "d"
      [] c = "E" -> "e" [] c = "F" -> "f" [] c = "G" -> "g" [] c = "H" -> "h"
      [] c = "I" -> "i" [] c = "J" -> "j" [] c = "K" -> "k" [] c = "L" -> "l"
      [] c = "M" -> "m" [] c = "N" -> "n" [] c = "O" -> "o" [] c = "P" -> "p"
      [] c = "Q" -> "q" [] c = "R" -> "r" [] c = "S" -> "s" [] c = "T" -> "t"
      [] c = "U" -> "u" [] c = "V" -> "v" [] c = "W" -> "w" [] c = "X" -> "x"
      [] c = "Y" -> "y" [] c = "Z" -> "z"]

\* String.prototype.toLowerCase
ToLowerCase(str) == [i \in 1..Len(str) |-> IF str[i] \in UpperCase THEN LowerOf[str[i]] ELSE str[i]]

IsSpace(c) == c = " "

\* String.prototype.trim
RECURSIVE TrimStart(_)
TrimStart(str) == IF str # <<>> /\ IsSpace(Head(str)) THEN TrimStart(Tail(str)) ELSE str
RECURSIVE TrimEnd(_)
TrimEnd(str) ==
    IF str # <<>> /\ IsSpace(str[Len(str)]) THEN TrimEnd(SubSeq(str, 1, Len(str) - 1)) ELSE str
Trim(str) == TrimEnd(TrimStart(str))

\* String.prototype.startsWith
StartsWith(str, prefix) ==
    Len(prefix) <= Len(str) /\ SubSeq(str, 1, Len(prefix)) = prefix

\* String.prototype.includes
Includes(str, sub) ==
    \E i \in 0..(Len(str) - Len(sub)) : SubSeq(str, i + 1, i + Len(sub)) = sub

\* the texts of the model's messages
TxtWhatTime == <<"W","h","a","t"," ","t","i","m","e","?">>     \* "What time?"
TxtIsItLive == <<" ","I","s"," ","i","t"," ","l","i","v","e">> \* " Is it live"
TxtNinePm   == <<"9","p","m","!">>                             \* "9pm!"
TxtOkQ      == <<"o","k","?">>                                 \* "ok?"
TxtGreat    == <<"g","r","e","a","t"," ","s","t","r","e","a","m">>  \* "great stream"
TxtWhatever == <<"W","h","a","t","e","v","e","r">>             \* "Whatever"
TxtAtBob    == <<"@","B","o","b"," ","h","i">>                 \* "@Bob hi"
TxtGreatLive == <<"g","r","e","a","t"," ","l","i","v","e"," ","s","t","r","e","a","m">>
                                                                \* "great live stream"
TxtGreatest == <<"G","r","e","a","t","e","s","t"," ","g","r","e","a","t","e","s","t">>
                                                                \* "Greatest greatest"
TxtEight == <<"r","e","d"," ","t","a","n"," ","s","k","y"," ","b","u","s"," ",
              "c","a","t"," ","d","o","g"," ","f","o","x"," ","h","e","n">>
                                                \* "red tan sky bus cat dog fox hen"

\* the characters of the author names that occur in a text of the model
AuthorSpelling ==
    [a \in {"Bob", "Carl"} |->
        IF a = "Bob" THEN <<"B","o","b">> ELSE <<"C","a","r","l">>]

\* `${author}`: the name as text; a name no text of the model contains
\* stays one symbol
AuthorChars(author) ==
    IF author \in DOMAIN AuthorSpelling THEN AuthorSpelling[author] ELSE <<author>>

---------------------------------------------------------------------------
(* questionAnalysis: detectQuestions, findAnswers, extractHostQuestions,   *)
(* rankQuestionAnswerers                                                   *)

questionWords == <<
    <<"w","h","a","t">>, <<"h","o","w">>, <<"w","h","y">>, <<"w","h","e","n">>,
    <<"w","h","e","r","e">>, <<"w","h","o">>, <<"c","a","n">>, <<"c","o","u","l","d">>,
    <<"w","o","u","l","d">>, <<"s","h","o","u","l","d">>, <<"i","s">>, <<"a","r","e">>,
    <<"d","o">>, <<"d","o","e","s">> >>

\* shortest text that can be a question
MinQuestionLength == 5

detectQuestions(message) ==
    IF message = <<>> \/ Len(message) < MinQuestionLength THEN FALSE
    ELSE IF Includes(message, <<"?">>) THEN TRUE
    ELSE LET lowerMessage == Trim(ToLowerCase(message))
         IN  \E k \in 1..Len(questionWords) :
                 StartsWith(lowerMessage, questionWords[k] \o <<" ">>)


\* new Date(ts).getTime() counts milliseconds; the code divides by 1000
MsPerSecond == 1000

\* timeWindowSeconds: number = 120
DefaultTimeWindowSeconds == 120

\* candidateMessages.slice(0, 10)
AnswerCap == 10

\* candidateMessages.sort((a, b) => time(a) - time(b)): stable, ascending
RECURSIVE SortByTimestamp(_)
SortByTimestamp(s) ==
    IF s = <<>> THEN <<>>
    ELSE LET init == SortByTimestamp(SubSeq(s, 1, Len(s) - 1))
             x    == s[Len(s)]
             \* x goes after every element that is not later than x
             k    == Cardinality({i \in 1..Len(init) : init[i].timestamp <= x.timestamp})
         IN  SubSeq(init, 1, k) \o <<x>> \o SubSeq(init, k + 1, Len(init))

\* IsCandidate with the lower test written timeDiffSeconds >= 0
IsCandidateNotStrict(question, msg, timeWindowSeconds) ==
    LET timeDiffSeconds == Frac(msg.timestamp - question.timestamp, MsPerSecond)
    IN  /\ FLe(FInt(0), timeDiffSeconds)
        /\ FLe(timeDiffSeconds, FInt(timeWindowSeconds))
        /\ msg.author # question.author

\* the filter of findAnswers
IsCandidate(question, msg, timeWindowSeconds) ==
    LET timeDiffSeconds == Frac(msg.timestamp - question.timestamp, MsPerSecond)
    IN  /\ FLt(FInt(0), timeDiffSeconds)
        /\ FLe(timeDiffSeconds, FInt(timeWindowSeconds))
        /\ msg.author # question.author

ToAnswer(question, msg) ==
    [messageId |-> msg.id,
     author |-> msg.author,
     message |-> msg.message,
     timestamp |-> msg.timestamp,
     responseTimeSeconds |-> Frac(msg.timestamp - question.timestamp, MsPerSecond)]

\* findAnswers without candidateMessages.sort
findAnswersUnsorted(question, msgs, host, timeWindowSeconds) ==
    LET candidateMessages ==
            SelectSeq(msgs, LAMBDA m : IsCandidate(question, m, timeWindowSeconds))
        topAnswers == Take(candidateMessages, AnswerCap)
    IN  [i \in 1..Len(topAnswers) |-> ToAnswer(question, topAnswers[i])]

findAnswers(question, msgs, host, timeWindowSeconds) ==
    LET candidateMessages ==
            SortByTimestamp(SelectSeq(msgs, LAMBDA m : IsCandidate(question, m, timeWindowSeconds)))
        topAnswers == Take(candidateMessages, AnswerCap)
    IN  [i \in 1..Len(topAnswers) |-> ToAnswer(question, topAnswers[i])]

ToHostQuestion(msg, answers) ==
    [messageId |-> msg.id,
     author |-> msg.author,
     question |-> msg.message,
     timestamp |-> msg.timestamp,
     answers |-> answers,
     wasAnswered |-> Len(answers) > 0]

extractHostQuestions(msgs, host, timeWindowSeconds) ==
    LET hostMessages == SelectSeq(msgs, LAMBDA m : m.author = host)
        asked == SelectSeq(hostMessages, LAMBDA m : detectQuestions(m.message))
    IN  [i \in 1..Len(asked) |->
            ToHostQuestion(asked[i],
                findAnswers(ToHostQuestion(asked[i], <<>>), msgs, host, timeWindowSeconds))]

\* every answer of every question, in the order the nested forEach visits them
AllAnswers(hqs) == Flatten([i \in 1..Len(hqs) |-> hqs[i].answers])

RECURSIVE FSum(_)
FSum(fs) == IF fs = <<>> THEN FInt(0) ELSE FAdd(Head(fs), FSum(Tail(fs)))

\* the entry answererMap holds for author after the collection loop
AnswererStats(author, hqs, msgs) ==
    LET own == SelectSeq(AllAnswers(hqs), LAMBDA a : a.author = author)
    IN  [answersCount |-> Len(own),
         totalResponseTime |-> FSum([i \in 1..Len(own) |-> own[i].responseTimeSeconds]),
         respondentMessages |-> Len(SelectSeq(msgs, LAMBDA m : m.author = author))]

\* frequencyScore * 0.4 + speedScore * 0.4 + engagementScore * 0.2
HelpfulnessTotal(stats, avgResponseTime, nQuestions) ==
    LET frequencyScore ==
            FMin(FInt(100),
                 FMul(Frac(stats.answersCount, Max(1, stats.respondentMessages)), FInt(100)))
        speedScore ==
            FMax(FInt(0), FSub(FInt(100), FMul(FDiv(avgResponseTime, FInt(60)), FInt(10))))
        engagementScore == FMul(Frac(stats.answersCount, nQuestions), FInt(100))
    IN  FAdd(FAdd(FMul(frequencyScore, Frac(2, 5)), FMul(speedScore, Frac(2, 5))),
             FMul(engagementScore, Frac(1, 5)))

ToQuestionAnswerer(author, hqs, msgs) ==
    LET stats == AnswererStats(author, hqs, msgs)
        avgResponseTime ==
            IF stats.answersCount > 0
            THEN FDiv(stats.totalResponseTime, FInt(stats.answersCount))
            ELSE FInt(0)
    IN  [author |-> author,
         questionsAnswered |-> stats.answersCount,
         averageResponseTime |-> avgResponseTime,
         helpfulnessScore |-> MathRound(HelpfulnessTotal(stats, avgResponseTime, Len(hqs)))]

\* s.sort((a, b) => b[field] - a[field]): stable, descending
RECURSIVE SortDescBy(_, _)
SortDescBy(s, field) ==
    IF s = <<>> THEN <<>>
    ELSE LET init == SortDescBy(SubSeq(s, 1, Len(s) - 1), field)
             x    == s[Len(s)]
             \* x goes after every element that does not score less than x
             k    == Cardinality({i \in 1..Len(init) : init[i][field] >= x[field]})
         IN  SubSeq(init, 1, k) \o <<x>> \o SubSeq(init, k + 1, Len(init))

rankQuestionAnswerers(hqs, msgs) ==
    LET authors == Distinct([i \in 1..Len(AllAnswers(hqs)) |-> AllAnswers(hqs)[i].author])
        answerers == [i \in 1..Len(authors) |-> ToQuestionAnswerer(authors[i], hqs, msgs)]
    IN  SortDescBy(answerers, "helpfulnessScore")

---------------------------------------------------------------------------
(* Inputs *)

\* eleven viewers, one more than the answers one question keeps
Viewers == <<"Ann", "Bea", "Cal", "Dan", "Eve", "Fay", "Gus", "Hal", "Ida", "Jon", "Kim">>

\* new ChatMessage records; the id is the position in the input
Message(id, author, text, timestamp, badges) ==
    [id |-> id, author |-> author, message |-> text, timestamp |-> timestamp,
     badges |-> badges]

\* the host asks or states, the others reply
QAKinds == {<<"Host", TxtWhatTime>>, <<"Host", TxtNinePm>>,
            <<"Bob", TxtGreat>>, <<"Carl", TxtGreat>>}

\* milliseconds: a start, half a second later, the window's end and just after it
QATimes == {0, 500, 120000, 120500}

\* the input whose i-th message is of kind k[i], sent at t[i]
QAInput(n, k, t) == [i \in 1..n |-> Message(i, k[i][1], k[i][2], t[i], {})]

\* numbers of replies around the cap on the answers
ReplyCounts == {AnswerCap - 1, AnswerCap, AnswerCap + 1, AnswerCap + 2}

\* milliseconds between two replies: with the longer one the last replies
\* are after the window
ReplyGaps == {1000, 11000}

\* n replies of Bob and Carl in reverse chronological order, gap apart,
\* then the host's own follow-up and, last in the array, the question
\* asked before them all
ReplyBurstInput(n, gap) ==
    [i \in 1..(n + 2) |->
        IF i <= n
        THEN Message(i, IF i % 2 = 0 THEN "Bob" ELSE "Carl", TxtGreat, (n - i + 1) * gap, {})
        ELSE IF i = n + 1 THEN Message(i, "Host", TxtNinePm, gap, {})
        ELSE Message(i, "Host", TxtWhatTime, 0, {})]

---------------------------------------------------------------------------
(* Specification of the question/answer component *)

InitQA ==
    /\ \/ \E n \in 0..MaxMsgs :
              \E k \in [1..n -> QAKinds], t \in [1..n -> QATimes] :
                  messages = QAInput(n, k, t)
       \/ \E n \in ReplyCounts, gap \in ReplyGaps : messages = ReplyBurstInput(n, gap)
    /\ hostIdentifier = ""
    /\ hostName = "Host"
    /\ hostQuestions = <<>>
    /\ questionAnswerers = <<>>
    /\ conversationThreads = <<>>
    /\ answerersMap = EmptyMap
    /\ activeCommunityMembers = <<>>
    /\ reports = <<>>
    /\ ran = <<>>
    /\ AsyncNotCalled
    /\ TopicsNotRun
    /\ flaggedMessages = <<>>
    /\ RoutesNotStarted

ExtractHostQuestionsCall ==
    /\ ran = <<>>
    /\ hostQuestions' = extractHostQuestions(messages, hostName, DefaultTimeWindowSeconds)
    /\ ran' = Append(ran, "extractHostQuestions")
    /\ UNCHANGED <<messages, hostIdentifier, hostName, questionAnswerers,
                   conversationThreads, answerersMap, activeCommunityMembers, reports>>
    /\ UNCHANGED asyncVars
    /\ UNCHANGED topicVars
    /\ UNCHANGED flaggedMessages
    /\ UNCHANGED routeVars

RankQuestionAnswerersCall ==
    /\ ran = <<"extractHostQuestions">>
    /\ questionAnswerers' = rankQuestionAnswerers(hostQuestions, messages)
    /\ ran' = Append(ran, "rankQuestionAnswerers")
    /\ UNCHANGED <<messages, hostIdentifier, hostName, hostQuestions,
                   conversationThreads, answerersMap, activeCommunityMembers, reports>>
    /\ UNCHANGED asyncVars
    /\ UNCHANGED topicVars
    /\ UNCHANGED flaggedMessages
    /\ UNCHANGED routeVars

NextQA == ExtractHostQuestionsCall \/ RankQuestionAnswerersCall

SpecQA == InitQA /\ [][NextQA]_vars

---------------------------------------------------------------------------
(* Properties of the question/answer component *)

AnswerIds(q) == {q.answers[i].messageId : i \in 1..Len(q.answers)}

\* C1: no input message id occurs in the answers of two different
\* HostQuestions returned by extractHostQuestions.
AnswerBelongsToOneQuestion ==
    \A i, j \in 1..Len(hostQuestions) :
        i # j => AnswerIds(hostQuestions[i]) \cap AnswerIds(hostQuestions[j]) = {}

\* C2: every QuestionAnswerer returned by rankQuestionAnswerers has an
\* integer helpfulnessScore between 0 and 100.
HelpfulnessScoreInRange ==
    \A i \in 1..Len(questionAnswerers) :
        questionAnswerers[i].helpfulnessScore \in 0..100

\* the input message an Answer or a HostQuestion was made from
MessageOf(id) == messages[id]

\* C7: every Answer of every HostQuestion has a responseTimeSeconds that is
\* positive, at most the time window, and equal to the answer message's
\* timestamp minus the question's, in seconds.
ResponseTimeWithinWindow ==
    \A i \in 1..Len(hostQuestions) :
        \A j \in 1..Len(hostQuestions[i].answers) :
            LET q == hostQuestions[i]
                a == q.answers[j]
            IN  /\ FLt(FInt(0), a.responseTimeSeconds)
                /\ FLe(a.responseTimeSeconds, FInt(DefaultTimeWindowSeconds))
                /\ a.responseTimeSeconds =
                       Frac(MessageOf(a.messageId).timestamp - MessageOf(q.messageId).timestamp,
                            MsPerSecond)

\* a question answered exactly at the end of the window, with a reply of
\* another author left out as too late
ResponseTimeWitness ==
    \E i \in 1..Len(hostQuestions) :
        LET q == hostQuestions[i]
        IN  /\ \E j \in 1..Len(q.answers) :
                   q.answers[j].responseTimeSeconds = FInt(DefaultTimeWindowSeconds)
            /\ \E k \in 1..Len(messages) :
                   /\ messages[k].author # q.author
                   /\ messages[k].timestamp - q.timestamp > DefaultTimeWindowSeconds * MsPerSecond
                   /\ messages[k].id \notin AnswerIds(q)

\* positions of the messages that may answer the question: sent after it,
\* at most the window later, by another author
CandidatePositions(q) ==
    {i \in 1..Len(messages) :
        /\ messages[i].timestamp > q.timestamp
        /\ messages[i].timestamp - q.timestamp <= DefaultTimeWindowSeconds * MsPerSecond
        /\ messages[i].author # q.author}

\* C13: for every host question the answers are exactly the first 10, in
\* chronological order, of the messages sent strictly after the question,
\* at most the window later, by another author than the questioner (so
\* none is the host's); wasAnswered is true iff the list is not empty.
AnswersAreFirstTenCandidates ==
    \A h \in 1..Len(hostQuestions) :
        LET q == hostQuestions[h]
            candidates == CandidatePositions(q)
            taken == AnswerIds(q)
        IN  /\ Len(q.answers) = Min(AnswerCap, Cardinality(candidates))
            /\ Cardinality(taken) = Len(q.answers)
            /\ taken \subseteq candidates
            /\ \A i, j \in 1..Len(q.answers) :
                   i < j => q.answers[i].timestamp <= q.answers[j].timestamp
            /\ \A a \in taken, c \in candidates \ taken :
                   messages[a].timestamp <= messages[c].timestamp
            /\ \A i \in 1..Len(q.answers) :
                   /\ q.answers[i].author # hostName
                   /\ q.answers[i].timestamp = messages[q.answers[i].messageId].timestamp
                   /\ q.answers[i].author = messages[q.answers[i].messageId].author
            /\ q.wasAnswered <=> Len(q.answers) > 0

\* a question with more than 10 candidates has the 10 earliest as answers,
\* and a question of the same run has none
FirstTenWitness ==
    \E h \in 1..Len(hostQuestions) :
        /\ Cardinality(CandidatePositions(hostQuestions[h])) > AnswerCap
        /\ Len(hostQuestions[h].answers) = AnswerCap
        /\ hostQuestions[h].answers[1].messageId > hostQuestions[h].answers[2].messageId

---------------------------------------------------------------------------
(* conversationThreading: detectThreads                                    *)

\* j < i + 20
LookAheadLimit == 20

\* threadMessages.length >= 3, and messages.length < 3 returns []
MinThreadSize == 3

\* IsSeed without the test of processedIndices
IsSeedAlways(i, processed) == TRUE

\* if (processedIndices.has(i)) continue
IsSeed(i, processed) == i \notin processed

\* EmitsThread with the threshold one lower
EmitsThreadOfTwo(members) == Len(members) >= MinThreadSize - 1

\* if (threadMessages.length >= 3)
EmitsThread(members) == Len(members) >= MinThreadSize

\* IsRelevant if the signals computed in the loop decided with the window
IsRelevantBySignal(startMsg, currentMsg, timeDiff, timeWindowSeconds) ==
    LET isSameAuthor == currentMsg.author = startMsg.author
        isMention == \/ Includes(startMsg.message, <<"@">> \o AuthorChars(currentMsg.author))
                     \/ Includes(currentMsg.message, <<"@">> \o AuthorChars(startMsg.author))
        isWithinWindow == FLe(timeDiff, FInt(timeWindowSeconds))
    IN  isWithinWindow /\ (isSameAuthor \/ isMention)

\* the test that admits currentMsg to the thread of startMsg: isSameAuthor
\* and isMention are computed and not used
IsRelevant(startMsg, currentMsg, timeDiff, timeWindowSeconds) ==
    LET isSameAuthor == currentMsg.author = startMsg.author
        isMention == \/ Includes(startMsg.message, <<"@">> \o AuthorChars(currentMsg.author))
                     \/ Includes(currentMsg.message, <<"@">> \o AuthorChars(startMsg.author))
        isWithinWindow == FLe(timeDiff, FInt(timeWindowSeconds))
    IN  isWithinWindow

\* The inner loop of detectThreads from position j on, for the seed at
\* position i of sorted: members are the positions gathered so far.
RECURSIVE LookAhead(_, _, _, _, _, _)
LookAhead(sorted, i, j, members, processed, timeWindowSeconds) ==
    IF ~(j <= Len(sorted) /\ j < i + LookAheadLimit)
    THEN [members |-> members, processed |-> processed]
    ELSE IF j \in processed
    THEN LookAhead(sorted, i, j + 1, members, processed, timeWindowSeconds)
    ELSE LET timeDiff == Frac(sorted[j].timestamp - sorted[i].timestamp, MsPerSecond)
         IN  IF FLt(FInt(timeWindowSeconds), timeDiff)
             THEN [members |-> members, processed |-> processed]      \* break
             ELSE IF IsRelevant(sorted[i], sorted[j], timeDiff, timeWindowSeconds)
             THEN LookAhead(sorted, i, j + 1, Append(members, j),
                            processed \cup {j}, timeWindowSeconds)
             ELSE LookAhead(sorted, i, j + 1, members, processed, timeWindowSeconds)

\* threads.push({...}) for the gathered positions
ToThread(sorted, members, threadCounter) ==
    [threadId |-> threadCounter,
     participants |-> Distinct([k \in 1..Len(members) |-> sorted[members[k]].author]),
     messageCount |-> Len(members),
     startTime |-> sorted[members[1]].timestamp,
     endTime |-> sorted[members[Len(members)]].timestamp,
     messages |-> [k \in 1..Len(members) |-> sorted[members[k]].id]]

\* The outer loop of detectThreads from position i on.
RECURSIVE Scan(_, _, _, _, _)
Scan(sorted, i, threads, processed, timeWindowSeconds) ==
    IF i > Len(sorted) THEN [threads |-> threads, processed |-> processed]
    ELSE IF ~IsSeed(i, processed)
    THEN Scan(sorted, i + 1, threads, processed, timeWindowSeconds)
    ELSE LET la == LookAhead(sorted, i, i + 1, <<i>>, processed, timeWindowSeconds)
         IN  IF EmitsThread(la.members)
             THEN Scan(sorted, i + 1,
                       Append(threads, ToThread(sorted, la.members, Len(threads))),
                       la.processed \cup Range(la.members), timeWindowSeconds)
             ELSE Scan(sorted, i + 1, threads, la.processed, timeWindowSeconds)

\* detectThreads scanning the messages in the order of the array
detectThreadsUnsorted(msgs, timeWindowSeconds) ==
    IF Len(msgs) < MinThreadSize THEN <<>>
    ELSE Scan(msgs, 1, <<>>, {}, timeWindowSeconds).threads

detectThreads(msgs, timeWindowSeconds) ==
    IF Len(msgs) < MinThreadSize THEN <<>>
    ELSE Scan(SortByTimestamp(msgs), 1, <<>>, {}, timeWindowSeconds).threads

---------------------------------------------------------------------------
(* Specification of the conversation threader *)

ThreadAuthors == {"Bob", "Carl"}

\* milliseconds: a start, exactly one window later, exactly two windows later
ThreadTimes == {0, 120000, 240000}

ThreadInput(n, a, t) == [i \in 1..n |-> Message(i, a[i], TxtGreat, t[i], {})]

\* lengths of the bursts: inputs longer than the look-ahead
BurstSizes == {LookAheadLimit, LookAheadLimit + 1, LookAheadLimit + 3}

\* milliseconds between two messages of a burst
BurstGaps == {0, 1000}

\* n messages of alternating authors, gap milliseconds apart
BurstInput(n, gap) ==
    [i \in 1..n |-> Message(i, IF i % 2 = 1 THEN "Bob" ELSE "Carl", TxtGreat, (i - 1) * gap, {})]

\* author and text of the messages of the inputs with mentions
MentionKinds == {<<"Bob", TxtGreat>>, <<"Carl", TxtGreat>>, <<"Carl", TxtAtBob>>}

\* milliseconds: a start, a second later, just after the window
MentionTimes == {0, 1000, 120500}

MentionInput(n, k, t) == [i \in 1..n |-> Message(i, k[i][1], k[i][2], t[i], {})]

InitThreads ==
    /\ \/ \E n \in 0..MaxThreadMsgs :
              \E a \in [1..n -> ThreadAuthors], t \in [1..n -> ThreadTimes] :
                  messages = ThreadInput(n, a, t)
       \/ \E n \in 0..(MaxMsgs + 1) :
              \E k \in [1..n -> MentionKinds], t \in [1..n -> MentionTimes] :
                  messages = MentionInput(n, k, t)
       \/ \E n \in BurstSizes, gap \in BurstGaps : messages = BurstInput(n, gap)
    /\ hostIdentifier = ""
    /\ hostName = ""
    /\ hostQuestions = <<>>
    /\ questionAnswerers = <<>>
    /\ conversationThreads = <<>>
    /\ answerersMap = EmptyMap
    /\ activeCommunityMembers = <<>>
    /\ reports = <<>>
    /\ ran = <<>>
    /\ AsyncNotCalled
    /\ TopicsNotRun
    /\ flaggedMessages = <<>>
    /\ RoutesNotStarted

DetectThreadsCall ==
    /\ ran = <<>>
    /\ conversationThreads' = detectThreads(messages, DefaultTimeWindowSeconds)
    /\ ran' = Append(ran, "detectThreads")
    /\ UNCHANGED <<messages, hostIdentifier, hostName, hostQuestions, questionAnswerers,
                   answerersMap, activeCommunityMembers, reports>>
    /\ UNCHANGED asyncVars
    /\ UNCHANGED topicVars
    /\ UNCHANGED flaggedMessages
    /\ UNCHANGED routeVars

NextThreads == DetectThreadsCall

SpecThreads == InitThreads /\ [][NextThreads]_vars

---------------------------------------------------------------------------
(* Properties of the conversation threader *)

InputIds == {messages[i].id : i \in 1..Len(messages)}

\* C3: no message id appears in two different threads returned by
\* detectThreads, and none appears twice inside one thread.
NoMessageInTwoThreads ==
    /\ \A i, j \in 1..Len(conversationThreads) :
           i # j => Range(conversationThreads[i].messages)
                        \cap Range(conversationThreads[j].messages) = {}
    /\ \A i \in 1..Len(conversationThreads) :
           \A k, l \in 1..Len(conversationThreads[i].messages) :
               k # l => conversationThreads[i].messages[k] # conversationThreads[i].messages[l]

\* two threads were returned, the second one starting within the window of
\* a member of the first
TwoThreadsWitness ==
    /\ Len(conversationThreads) >= 2
    /\ \E k \in 1..Len(conversationThreads[1].messages) :
           MessageOf(conversationThreads[2].messages[1]).timestamp
               - MessageOf(conversationThreads[1].messages[k]).timestamp
           <= DefaultTimeWindowSeconds * MsPerSecond

\* C4: every thread returned by detectThreads has messageCount >= 3 equal to
\* the length of its messages list, at least one participant, only ids of
\* input messages, and as participants exactly the authors of its members.
ThreadWellFormed ==
    \A i \in 1..Len(conversationThreads) :
        LET t == conversationThreads[i]
        IN  /\ t.messageCount >= 3
            /\ t.messageCount = Len(t.messages)
            /\ Len(t.participants) >= 1
            /\ Range(t.messages) \subseteq InputIds
            /\ Range(t.participants) = {MessageOf(id).author : id \in Range(t.messages)}
            /\ Cardinality(Range(t.participants)) = Len(t.participants)

\* a thread of two authors was returned while another group of messages,
\* too small, was not
ThreadWitness ==
    /\ ran = <<"detectThreads">>
    /\ \E i \in 1..Len(conversationThreads) : Len(conversationThreads[i].participants) = 2
    /\ \E id \in InputIds :
           \A i \in 1..Len(conversationThreads) : id \notin Range(conversationThreads[i].messages)

\* authors of the input
InputAuthors == {messages[i].author : i \in 1..Len(messages)}

\* timestamps of the input
InputTimes == {messages[i].timestamp : i \in 1..Len(messages)}

\* every message is at most the window after the earliest one
AllWithinWindow ==
    \A t \in InputTimes : t - SetMin(InputTimes) <= DefaultTimeWindowSeconds * MsPerSecond

\* C14: for an input of 3 to 20 messages that all lie within the window
\* after the earliest one, detectThreads returns exactly one thread, with
\* all the messages in chronological order, the distinct authors as
\* participants, and the earliest and latest timestamps as startTime and
\* endTime.
OneThreadForOneBurst ==
    (/\ ran = <<"detectThreads">>
     /\ Len(messages) >= 3
     /\ Len(messages) <= 20
     /\ AllWithinWindow)
    => /\ Len(conversationThreads) = 1
       /\ LET t == conversationThreads[1]
          IN  /\ Len(t.messages) = Len(messages)
              /\ Range(t.messages) = InputIds
              /\ \A k, l \in 1..Len(t.messages) :
                     k < l => MessageOf(t.messages[k]).timestamp
                                  <= MessageOf(t.messages[l]).timestamp
              /\ Range(t.participants) = InputAuthors
              /\ Cardinality(Range(t.participants)) = Len(t.participants)
              /\ t.startTime = SetMin(InputTimes)
              /\ t.endTime = SetMax(InputTimes)

\* 20 messages a second apart are one thread
OneThreadWitness ==
    /\ ran = <<"detectThreads">>
    /\ Len(conversationThreads) = 1
    /\ AllWithinWindow
    /\ Len(messages) = 20
    /\ Cardinality(InputTimes) = 20

\* ids of the messages that are in no returned thread
OutsideThreads ==
    {id \in InputIds :
        \A i \in 1..Len(conversationThreads) : id \notin Range(conversationThreads[i].messages)}

SeedTakesTwentyFollowers ==
    (/\ ran = <<"detectThreads">>
     /\ Len(messages) >= 21
     /\ AllWithinWindow)
    => /\ Len(conversationThreads) >= 1
       /\ conversationThreads[1].messageCount = 21

\* C18: only the members of an emitted thread are consumed, so after the
\* scan no message outside every thread is followed, among the next 20
\* messages in time order, by two messages that are also outside every
\* thread and within the window of it.
NoThreadLeftUnformed ==
    ran = <<"detectThreads">> =>
        LET sorted == SortByTimestamp(messages)
        IN  ~ \E m, x, y \in 1..Len(sorted) :
                /\ m < x /\ x < y /\ y <= m + 20
                /\ {sorted[m].id, sorted[x].id, sorted[y].id} \subseteq OutsideThreads
                /\ sorted[x].timestamp - sorted[m].timestamp
                       <= DefaultTimeWindowSeconds * MsPerSecond
                /\ sorted[y].timestamp - sorted[m].timestamp
                       <= DefaultTimeWindowSeconds * MsPerSecond

---------------------------------------------------------------------------
(* conversationThreading: calculateStreamDuration, calculateEngagementScore, *)
(* identifyActiveCommunityMembers                                          *)

\* sorted.slice(0, 20)
TopMembers == 20

\* let avgResponseTime = 120
DefaultGapSeconds == 120

\* if (timeDiff <= 300)
MaxGapSeconds == 300

SecondsPerMinute == 60

\* minutes between the earliest and the latest timestamp
calculateStreamDuration(msgs) ==
    IF Len(msgs) < 2 THEN FInt(0)
    ELSE LET timestamps == {msgs[i].timestamp : i \in 1..Len(msgs)}
         IN  Frac(SetMax(timestamps) - SetMin(timestamps), MsPerSecond * SecondsPerMinute)

MessagesPerHour(count, streamDurationMinutes) ==
    IF FLt(FInt(0), streamDurationMinutes)
    THEN FMul(FDiv(FInt(count), streamDurationMinutes), FInt(60))
    ELSE FInt(0)

\* the gaps, in seconds, between consecutive messages of the author in the
\* order of the array, those above 300 s left out
QualifyingGaps(authorMessages) ==
    LET gaps == [i \in 1..(Len(authorMessages) - 1) |->
                    Frac(authorMessages[i + 1].timestamp - authorMessages[i].timestamp,
                         MsPerSecond)]
    IN  SelectSeq(gaps, LAMBDA g : FLe(g, FInt(MaxGapSeconds)))

\* the loop that computes avgResponseTime (in both functions)
AvgResponseTime(authorMessages) ==
    LET gaps == QualifyingGaps(authorMessages)
    IN  IF Len(authorMessages) > 1 /\ Len(gaps) > 0
        THEN FDiv(FSum(gaps), FInt(Len(gaps)))
        ELSE FInt(DefaultGapSeconds)

ConversationCount(author, threads) ==
    Len(SelectSeq(threads, LAMBDA t : author \in Range(t.participants)))

\* FinalScore without the Math.min
FinalScoreUnclamped(totalScore) == MathRound(totalScore)

\* Math.round(Math.min(100, totalScore))
FinalScore(totalScore) == MathRound(FMin(FInt(100), totalScore))

calculateEngagementScore(author, msgs, threads, answeredQuestions, streamDurationMinutes) ==
    LET authorMessages == SelectSeq(msgs, LAMBDA m : m.author = author)
        messageCount == Len(authorMessages)
        messagesPerHour == MessagesPerHour(messageCount, streamDurationMinutes)
        avgResponseTime == AvgResponseTime(authorMessages)
        conversationCount == ConversationCount(author, threads)
        frequencyScore == FMin(FInt(100), FMul(FDiv(messagesPerHour, FInt(10)), FInt(100)))
        answeringScore ==
            IF answeredQuestions > 0 THEN FInt(Min(100, answeredQuestions * 10)) ELSE FInt(0)
        speedScore ==
            FMax(FInt(0), FSub(FInt(100), FMul(FDiv(avgResponseTime, FInt(120)), FInt(100))))
        conversationScore == FMin(FInt(100), FMul(Frac(conversationCount, 5), FInt(100)))
        totalScore ==
            FAdd(FAdd(FMul(frequencyScore, Frac(3, 10)), FMul(answeringScore, Frac(1, 4))),
                 FAdd(FMul(speedScore, Frac(1, 4)), FMul(conversationScore, Frac(1, 5))))
    IN  IF messageCount = 0 THEN 0 ELSE FinalScore(totalScore)

\* authorBadges.get(author): the badges of the author's last message that has
\* any; {} stands for undefined
AuthorBadges(author, msgs) ==
    LET badged == SelectSeq(msgs, LAMBDA m : m.author = author /\ m.badges # {})
    IN  IF badged = <<>> THEN {} ELSE badged[Len(badged)].badges

ToCommunityMember(author, msgs, threads, answerers, streamDurationMinutes) ==
    LET authorMessages == SelectSeq(msgs, LAMBDA m : m.author = author)
        totalMessages == Len(authorMessages)
        questionsAnswered == GetOrZero(answerers, author)
    IN  [author |-> author,
         engagementScore |->
             calculateEngagementScore(author, msgs, threads, questionsAnswered,
                                      streamDurationMinutes),
         metrics |->
             [totalMessages |-> totalMessages,
              messagesPerHour |-> MessagesPerHour(totalMessages, streamDurationMinutes),
              questionsAnswered |-> questionsAnswered,
              avgResponseTime |-> AvgResponseTime(authorMessages),
              conversationCount |-> ConversationCount(author, threads)],
         badges |-> AuthorBadges(author, msgs)]

identifyActiveCommunityMembers(msgs, threads, answerers) ==
    LET streamDurationMinutes == calculateStreamDuration(msgs)
        authors == Distinct([i \in 1..Len(msgs) |-> msgs[i].author])
        members == [i \in 1..Len(authors) |->
                       ToCommunityMember(authors[i], msgs, threads, answerers,
                                         streamDurationMinutes)]
    IN  Take(SortDescBy(members, "engagementScore"), TopMembers)

---------------------------------------------------------------------------
(* Specification of the community scorer *)

CommunityAuthors == {"Host", "Bob", "Carl"}

\* milliseconds: a start, one second, four minutes and 400 seconds later
CommunityTimes == {0, 1000, 240000, 400000}

CommunityInput(n, a, t) == [i \in 1..n |-> Message(i, a[i], TxtGreat, t[i], {})]

\* the Maps given as questionAnswerers: none, one answer, twelve answers
AnswererMaps == {EmptyMap, [a \in {"Bob"} |-> 1], [a \in {"Bob"} |-> 12]}

CrowdAuthors == <<"u01", "u02", "u03", "u04", "u05", "u06", "u07", "u08", "u09", "u10",
                  "u11", "u12", "u13", "u14", "u15", "u16", "u17", "u18", "u19", "u20",
                  "u21", "u22">>

\* numbers of authors of a crowd: the cap on the members, and more
CrowdSizes == {TopMembers, TopMembers + 1, TopMembers + 2}

\* One message of each of n authors, in reverse chronological order and a
\* second apart, then a second message of the first author.
CrowdInput(n) ==
    [i \in 1..(n + 1) |->
        IF i <= n THEN Message(i, CrowdAuthors[i], TxtGreat, (n - i) * MsPerSecond, {})
                  ELSE Message(i, CrowdAuthors[1], TxtGreat, 0, {})]

InitCommunity ==
    /\ \/ \E n \in 0..MaxMsgs :
              \E a \in [1..n -> CommunityAuthors], t \in [1..n -> CommunityTimes] :
                  messages = CommunityInput(n, a, t)
       \/ \E n \in CrowdSizes : messages = CrowdInput(n)
    /\ answerersMap \in AnswererMaps
    /\ hostIdentifier = ""
    /\ hostName = ""
    /\ hostQuestions = <<>>
    /\ questionAnswerers = <<>>
    /\ conversationThreads = <<>>
    /\ activeCommunityMembers = <<>>
    /\ reports = <<>>
    /\ ran = <<>>
    /\ AsyncNotCalled
    /\ TopicsNotRun
    /\ flaggedMessages = <<>>
    /\ RoutesNotStarted

IdentifyActiveCommunityMembersCall ==
    /\ ran = <<"detectThreads">>
    /\ activeCommunityMembers' =
           identifyActiveCommunityMembers(messages, conversationThreads, answerersMap)
    /\ ran' = Append(ran, "identifyActiveCommunityMembers")
    /\ UNCHANGED <<messages, hostIdentifier, hostName, hostQuestions, questionAnswerers,
                   conversationThreads, answerersMap, reports>>
    /\ UNCHANGED asyncVars
    /\ UNCHANGED topicVars
    /\ UNCHANGED flaggedMessages
    /\ UNCHANGED routeVars

NextCommunity == DetectThreadsCall \/ IdentifyActiveCommunityMembersCall

SpecCommunity == InitCommunity /\ [][NextCommunity]_vars

---------------------------------------------------------------------------
(* Properties of the community scorer *)

IsChronological(msgs) ==
    \A i, j \in 1..Len(msgs) : i < j => msgs[i].timestamp <= msgs[j].timestamp

\* C5: identifyActiveCommunityMembers returns at most 20 members, each with
\* an integer engagementScore between 0 and 100, in non-increasing order of
\* engagementScore, whatever the order of the input.
MembersRankedAndBounded ==
    /\ Len(activeCommunityMembers) <= 20
    /\ \A i \in 1..Len(activeCommunityMembers) :
           activeCommunityMembers[i].engagementScore \in 0..100
    /\ \A i, j \in 1..Len(activeCommunityMembers) :
           i < j => activeCommunityMembers[i].engagementScore
                        >= activeCommunityMembers[j].engagementScore

\* more than 20 authors wrote, out of chronological order; 20 members are
\* returned, and the author seen first is not the one listed first
CrowdWitness ==
    /\ ran = <<"detectThreads", "identifyActiveCommunityMembers">>
    /\ Cardinality(InputAuthors) > 20
    /\ ~IsChronological(messages)
    /\ Len(activeCommunityMembers) = 20
    /\ \E i, j \in 1..Len(activeCommunityMembers) :
           activeCommunityMembers[i].engagementScore
               > activeCommunityMembers[j].engagementScore

\* C27: for every CommunityMember returned, the avgResponseTime metric (the
\* mean gap between the author's consecutive messages, gaps above 300 s
\* left out, 120 when none is left) is between 0 and 300 seconds, whatever
\* the order in which the messages are supplied.
AvgResponseTimeInRange ==
    \A i \in 1..Len(activeCommunityMembers) :
        /\ FLe(FInt(0), activeCommunityMembers[i].metrics.avgResponseTime)
        /\ FLe(activeCommunityMembers[i].metrics.avgResponseTime, FInt(300))

---------------------------------------------------------------------------
(* hostDetection: identifyHost, flagHostMessages                           *)

\* null, the result of identifyHost when no rule applies (author names are
\* not empty)
NoHost == ""

CountByAuthor(msgs, author) == Len(SelectSeq(msgs, LAMBDA m : m.author = author))

\* the loop over authorCounts: the first author, in insertion order, whose
\* count is above every count before it
RECURSIVE TopAuthor(_, _, _, _)
TopAuthor(authors, msgs, topAuthor, maxCount) ==
    IF authors = <<>> THEN [topAuthor |-> topAuthor, maxCount |-> maxCount]
    ELSE LET count == CountByAuthor(msgs, Head(authors))
         IN  IF count > maxCount
             THEN TopAuthor(Tail(authors), msgs, Head(authors), count)
             ELSE TopAuthor(Tail(authors), msgs, topAuthor, maxCount)

\* IsQualifiedModerator without the test of the message count
IsAnyModerator(msgs, m) == "moderator" \in m.badges

\* the message has the moderator badge and its author has more than
\* Math.max(5, messages.length / 100) messages
IsQualifiedModerator(msgs, m) ==
    /\ "moderator" \in m.badges
    /\ FLt(FMax(FInt(5), Frac(Len(msgs), 100)), FInt(CountByAuthor(msgs, m.author)))

identifyHost(msgs, manualHostName) ==
    LET owners == SelectSeq(msgs, LAMBDA m : "owner" \in m.badges)
        moderators == SelectSeq(msgs, LAMBDA m : IsQualifiedModerator(msgs, m))
        authors == Distinct([i \in 1..Len(msgs) |-> msgs[i].author])
        top == TopAuthor(authors, msgs, "", 0)
    IN  IF manualHostName # "" THEN manualHostName
        ELSE IF owners # <<>> THEN owners[1].author
        ELSE IF moderators # <<>> THEN moderators[1].author
        ELSE IF authors = <<>> THEN NoHost
        ELSE IF FLt(FMul(FInt(Len(msgs)), Frac(1, 20)), FInt(top.maxCount)) THEN top.topAuthor
        ELSE NoHost

\* flagHostMessages flagging by the owner badge instead of the name
flagHostMessagesByBadge(msgs, host) ==
    [i \in 1..Len(msgs) |->
        [id |-> msgs[i].id, author |-> msgs[i].author, message |-> msgs[i].message,
         timestamp |-> msgs[i].timestamp, badges |-> msgs[i].badges,
         isHost |-> "owner" \in msgs[i].badges]]

flagHostMessages(msgs, host) ==
    [i \in 1..Len(msgs) |->
        [id |-> msgs[i].id, author |-> msgs[i].author, message |-> msgs[i].message,
         timestamp |-> msgs[i].timestamp, badges |-> msgs[i].badges,
         isHost |-> msgs[i].author = host]]

---------------------------------------------------------------------------
(* Specification of the host detection *)

\* authors of the grouped inputs, in the order of their first message
HostAuthors == <<"Ann", "Bob", "Cy">>

\* badges of an author of a grouped input
HostBadges == {{}, {"moderator"}, {"owner"}}

\* messages of an author of a grouped input: none, one, the moderator
\* threshold and one more
HostCounts == {0, 1, 5, 6}

\* messages of the unbadged author that ends a long input: with it the
\* input has more than 500 messages, so messages.length / 100 exceeds 5
FillerCount == 600

\* moderator messages of a long input: messages.length / 100 is between
\* the two
LongModeratorCounts == {6, 7}

\* count messages of one author, a second apart
Group(author, badges, count) ==
    [i \in 1..count |-> Message(i, author, TxtGreat, i * MsPerSecond, badges)]

\* the messages with their position as id
Renumber(msgs) ==
    [i \in 1..Len(msgs) |->
        Message(i, msgs[i].author, msgs[i].message, msgs[i].timestamp, msgs[i].badges)]

\* the groups of the three authors, one after the other
GroupedInput(b, c) ==
    Renumber(Flatten([i \in 1..Len(HostAuthors) |-> Group(HostAuthors[i], b[i], c[i])]))

\* a moderator's messages, then the filler's
LongInput(count) ==
    Renumber(Group("Ann", {"moderator"}, count) \o Group("Fill", {}, FillerCount))

\* author and badges of the messages of the short inputs
HostKinds == {"Ann", "Bob"} \X HostBadges

\* numbers of authors of one message each: 5% of the messages is below,
\* at and above one message
SparseSizes == {19, 20, 21}

SparseInput(n) == [i \in 1..n |-> Message(i, CrowdAuthors[i], TxtGreat, i * MsPerSecond, {})]

\* manualHostName: not supplied, an author, nobody's name
ManualNames == {"", "Cy", "Zed"}

InitHost ==
    /\ \/ \E n \in 0..MaxMsgs : \E k \in [1..n -> HostKinds] :
              messages = [i \in 1..n |-> Message(i, k[i][1], TxtGreat, i * MsPerSecond, k[i][2])]
       \/ \E b \in [1..Len(HostAuthors) -> HostBadges], c \in [1..Len(HostAuthors) -> HostCounts] :
              messages = GroupedInput(b, c)
       \/ \E count \in LongModeratorCounts : messages = LongInput(count)
       \/ \E n \in SparseSizes : messages = SparseInput(n)
    /\ hostIdentifier \in ManualNames
    /\ hostName = ""
    /\ hostQuestions = <<>>
    /\ questionAnswerers = <<>>
    /\ conversationThreads = <<>>
    /\ answerersMap = EmptyMap
    /\ activeCommunityMembers = <<>>
    /\ reports = <<>>
    /\ ran = <<>>
    /\ AsyncNotCalled
    /\ TopicsNotRun
    /\ flaggedMessages = <<>>
    /\ RoutesNotStarted

IdentifyHostCall ==
    /\ ran = <<>>
    /\ hostName' = identifyHost(messages, hostIdentifier)
    /\ ran' = Append(ran, "identifyHost")
    /\ UNCHANGED <<messages, hostIdentifier, hostQuestions, questionAnswerers,
                   conversationThreads, answerersMap, activeCommunityMembers, reports>>
    /\ UNCHANGED asyncVars
    /\ UNCHANGED topicVars
    /\ UNCHANGED flaggedMessages
    /\ UNCHANGED routeVars

NextHost == IdentifyHostCall

SpecHost == InitHost /\ [][NextHost]_vars

---------------------------------------------------------------------------
(* Properties of the host detection *)

\* number of the messages of an author
MessagesOf(author) == Cardinality({i \in 1..Len(messages) : messages[i].author = author})

\* positions of the messages with an owner badge
OwnerPositions == {i \in 1..Len(messages) : "owner" \in messages[i].badges}

\* positions of the moderator messages that are accepted: the author has
\* more than 5 messages and more than a hundredth of all messages
AcceptedModeratorPositions ==
    {i \in 1..Len(messages) :
        /\ "moderator" \in messages[i].badges
        /\ MessagesOf(messages[i].author) > 5
        /\ MessagesOf(messages[i].author) * 100 > Len(messages)}

\* the authors no other author has more messages than
MostActiveAuthors ==
    {a \in InputAuthors : \A b \in InputAuthors : MessagesOf(b) <= MessagesOf(a)}

\* rule (4) answers with a most active author if that author has more than
\* 5% of the messages, and with no host otherwise
IsFallbackResult(result) ==
    IF \E a \in MostActiveAuthors : MessagesOf(a) * 20 > Len(messages)
    THEN result \in MostActiveAuthors
    ELSE result = NoHost

FallbackNeedsStrictMaximum ==
    (/\ ran = <<"identifyHost">>
     /\ hostIdentifier = ""
     /\ OwnerPositions = {}
     /\ AcceptedModeratorPositions = {})
    => IF /\ Cardinality(MostActiveAuthors) = 1
          /\ \E a \in MostActiveAuthors : MessagesOf(a) * 20 > Len(messages)
       THEN hostName \in MostActiveAuthors
       ELSE hostName = NoHost

---------------------------------------------------------------------------
(* topicAnalysis: extractKeywords, clusterByTopic, calculateKeywordTrends   *)

STOPWORDS == {
    <<"t","h","e">>, <<"a">>, <<"a","n">>, <<"a","n","d">>, <<"o","r">>,
    <<"b","u","t">>, <<"i","n">>, <<"o","n">>, <<"a","t">>, <<"t","o">>,
    <<"f","o","r">>, <<"o","f">>, <<"w","i","t","h">>, <<"b","y">>,
    <<"f","r","o","m">>, <<"a","s">>, <<"i","s">>, <<"w","a","s">>, <<"a","r","e">>,
    <<"w","e","r","e">>, <<"b","e">>, <<"b","e","e","n">>, <<"b","e","i","n","g">>,
    <<"h","a","v","e">>, <<"h","a","s">>, <<"h","a","d">>, <<"d","o">>,
    <<"d","o","e","s">>, <<"d","i","d">>, <<"w","i","l","l">>, <<"w","o","u","l","d">>,
    <<"c","o","u","l","d">>, <<"s","h","o","u","l","d">>, <<"m","a","y">>,
    <<"m","i","g","h","t">>, <<"m","u","s","t">>, <<"c","a","n">>, <<"t","h","i","s">>,
    <<"t","h","a","t">>, <<"t","h","e","s","e">>, <<"t","h","o","s","e">>, <<"i">>,
    <<"y","o","u">>, <<"h","e">>, <<"s","h","e">>, <<"i","t">>, <<"w","e">>,
    <<"t","h","e","y">>, <<"m","e">>, <<"h","i","m">>, <<"h","e","r">>, <<"u","s">>,
    <<"t","h","e","m">>, <<"m","y">>, <<"y","o","u","r">>, <<"h","i","s">>,
    <<"i","t","s">>, <<"o","u","r">>, <<"t","h","e","i","r">>, <<"w","h","a","t">>,
    <<"w","h","i","c","h">>, <<"w","h","o">>, <<"w","h","o","m">>, <<"w","h","y">>,
    <<"h","o","w">>, <<"w","h","e","n">>, <<"w","h","e","r","e">>, <<"i","f">>,
    <<"s","o">>, <<"n","o">>, <<"n","o","t">>, <<"j","u","s","t">>, <<"u","p">>,
    <<"d","o","w","n">>, <<"o","u","t">>, <<"o","k">>, <<"l","o","l">>,
    <<"h","a","h","a">>, <<"h","e","h","e">>, <<"y","e","a","h">>, <<"y","e","s">>}

LowerCase == {"a","b","c","d","e","f","g","h","i","j","k","l","m",
              "n","o","p","q","r","s","t","u","v","w","x","y","z"}
Digits == {"0","1","2","3","4","5","6","7","8","9"}

\* \w or \s: what replace(/[^\w\s]/g, '') keeps
IsWordOrSpace(c) == c \in LowerCase \cup UpperCase \cup Digits \cup {"_", " "}

\* String.prototype.split(/\s+/) followed by filter(word => word.length > 0)
RECURSIVE SplitWords(_, _)
SplitWords(str, word) ==
    IF str = <<>> THEN (IF word = <<>> THEN <<>> ELSE <<word>>)
    ELSE IF IsSpace(Head(str))
    THEN (IF word = <<>> THEN <<>> ELSE <<word>>) \o SplitWords(Tail(str), <<>>)
    ELSE SplitWords(Tail(str), Append(word, Head(str)))

\* the words of one message: lowercase, punctuation removed, stopwords dropped
WordsOf(text) ==
    LET cleaned == SelectSeq(ToLowerCase(text), IsWordOrSpace)
    IN  SelectSeq(SplitWords(cleaned, <<>>), LAMBDA w : w \notin STOPWORDS)

\* the keys one message adds to keywordMap, in the order it adds them:
\* unigrams of more than 2 characters, bigrams, trigrams
KeywordsOf(text) ==
    LET words == WordsOf(text)
        unigrams == SelectSeq(words, LAMBDA w : Len(w) > 2)
        bigrams == [i \in 1..(Len(words) - 1) |-> words[i] \o <<" ">> \o words[i + 1]]
        trigrams == [i \in 1..(Len(words) - 2) |->
                        words[i] \o <<" ">> \o words[i + 1] \o <<" ">> \o words[i + 2]]
    IN  unigrams \o bigrams \o trigrams

\* the texts of the model's messages, and KeywordsOf tabulated over them
\* (evaluated once)
Texts == {TxtWhatTime, TxtIsItLive, TxtNinePm, TxtOkQ, TxtGreat, TxtWhatever, TxtAtBob,
          TxtGreatLive, TxtGreatest, TxtEight}
KeywordTable == [text \in Texts |-> KeywordsOf(text)]

\* keywords.slice(0, 50)
KeywordCap == 50

\* Math.ceil(a / b) for positive b
CeilDiv(a, b) == (a + b - 1) \div b

\* s.sort((a, b) => b.frequency - a.frequency), s.sort by messageCount
\* likewise: SortDescBy

extractKeywords(msgs) ==
    LET occurrences == Flatten([i \in 1..Len(msgs) |-> KeywordTable[msgs[i].message]])
        keys == Distinct(occurrences)
        entries == [i \in 1..Len(keys) |->
                       [keyword |-> keys[i],
                        frequency |-> Len(SelectSeq(occurrences, LAMBDA k : k = keys[i]))]]
        minFrequency == Max(2, CeilDiv(Len(msgs), 100))
        keywords == SelectSeq(entries, LAMBDA e : e.frequency >= minFrequency)
    IN  Take(SortDescBy(keywords, "frequency"), KeywordCap)

\* keywords.slice(0, 15)
ClusterKeywordCap == 15

\* contributors.slice(0, 5)
ContributorCap == 5

\* the messages whose lowercase text contains the keyword
RelatedMessages(msgs, keyword) ==
    SelectSeq(msgs, LAMBDA m : Includes(ToLowerCase(m.message), ToLowerCase(keyword)))

ToTopicCluster(keyword, relatedMessages) ==
    LET timestamps == {relatedMessages[i].timestamp : i \in 1..Len(relatedMessages)}
    IN  [topic |-> keyword,
         keywords |-> <<keyword>>,
         messageCount |-> Len(relatedMessages),
         topContributors |->
             Take(Distinct([i \in 1..Len(relatedMessages) |-> relatedMessages[i].author]),
                  ContributorCap),
         timeRange |-> [start |-> SetMin(timestamps), end |-> SetMax(timestamps)]]

\* clusterByTopic without the sort of the clusters
clusterByTopicUnsorted(msgs, keywords) ==
    LET topKeywords == Take(keywords, ClusterKeywordCap)
        anchored == SelectSeq(topKeywords,
                        LAMBDA k : Len(RelatedMessages(msgs, k.keyword)) >= 2)
    IN  [i \in 1..Len(anchored) |->
            ToTopicCluster(anchored[i].keyword, RelatedMessages(msgs, anchored[i].keyword))]

clusterByTopic(msgs, keywords) ==
    LET topKeywords == Take(keywords, ClusterKeywordCap)
        anchored == SelectSeq(topKeywords,
                        LAMBDA k : Len(RelatedMessages(msgs, k.keyword)) >= 2)
        clusters == [i \in 1..Len(anchored) |->
                        ToTopicCluster(anchored[i].keyword,
                                       RelatedMessages(msgs, anchored[i].keyword))]
    IN  SortDescBy(clusters, "messageCount")

\* keywords.slice(0, 20)
TrendKeywordCap == 20

\* ClassifyTrend with >= and <= for > and <
ClassifyTrendNotStrict(freq1, freq2, freq3) ==
    LET rise == freq3 - freq1
        threshold == FMul(FInt(Max(freq1, freq2)), Frac(3, 10))
    IN  IF FLe(threshold, FInt(rise)) THEN "rising"
        ELSE IF FLe(FInt(rise), FSub(FInt(0), threshold)) THEN "declining"
        ELSE "stable"

ClassifyTrend(freq1, freq2, freq3) ==
    LET rise == freq3 - freq1
        threshold == FMul(FInt(Max(freq1, freq2)), Frac(3, 10))
    IN  IF FLt(threshold, FInt(rise)) THEN "rising"
        ELSE IF FLt(FInt(rise), FSub(FInt(0), threshold)) THEN "declining"
        ELSE "stable"

\* Periods with Math.floor for Math.ceil
PeriodsOfFloor(msgs) ==
    LET sortedMessages == SortByTimestamp(msgs)
        thirdSize == Len(sortedMessages) \div 3
    IN  <<Take(sortedMessages, thirdSize),
          SubSeq(sortedMessages, Min(thirdSize, Len(sortedMessages)) + 1,
                 Min(thirdSize * 2, Len(sortedMessages))),
          Drop(sortedMessages, thirdSize * 2)>>

\* period1, period2 and period3 of calculateKeywordTrends
Periods(msgs) ==
    LET sortedMessages == SortByTimestamp(msgs)
        thirdSize == CeilDiv(Len(sortedMessages), 3)
    IN  <<Take(sortedMessages, thirdSize),
          SubSeq(sortedMessages, Min(thirdSize, Len(sortedMessages)) + 1,
                 Min(thirdSize * 2, Len(sortedMessages))),
          Drop(sortedMessages, thirdSize * 2)>>

calculateKeywordTrends(msgs, keywords) ==
    IF Len(msgs) < 2 THEN <<>>
    ELSE LET period1 == Periods(msgs)[1]
             period2 == Periods(msgs)[2]
             period3 == Periods(msgs)[3]
             top == Take(keywords, TrendKeywordCap)
             trends == [i \in 1..Len(top) |->
                 LET freq1 == Len(RelatedMessages(period1, top[i].keyword))
                     freq2 == Len(RelatedMessages(period2, top[i].keyword))
                     freq3 == Len(RelatedMessages(period3, top[i].keyword))
                 IN  [keyword |-> top[i].keyword,
                      frequency |-> freq1 + freq2 + freq3,
                      trend |-> ClassifyTrend(freq1, freq2, freq3)]]
         IN  SortDescBy(trends, "frequency")

---------------------------------------------------------------------------
(* The topic engine called on its own: extractKeywords, then clusterByTopic *)
(* and calculateKeywordTrends on its keywords, in either order             *)

\* largest enumerated input of the topic engine
MaxTopicMsgs == 4

\* author and text: "great" is part of "greatest", which one message says
\* twice and with a capital
TopicKinds == {<<"Bob", TxtGreat>>, <<"Carl", TxtGreatLive>>, <<"Dan", TxtGreatest>>}

\* milliseconds
TopicTimes == {0, 1000}

TopicInput(n, k, t) == [i \in 1..n |-> Message(i, k[i][1], k[i][2], t[i], {})]

\* seven messages of eight words, from six viewers and the first of them
\* again, the latest first: 21 keywords and 6 contributors
WideInput ==
    [i \in 1..7 |-> Message(i, Viewers[((i - 1) % 6) + 1], TxtEight, (7 - i) * MsPerSecond, {})]

\* numbers of messages with the keyword in a period of thirteen
EdgeCounts == {7, 10, 13}

\* 39 messages, the latest first: once sorted, c1 of the first thirteen and
\* c3 of the last thirteen say "great stream" and the others "9pm!"
EdgeInput(c1, c3) ==
    [i \in 1..39 |->
        LET place == 40 - i
            text == IF place <= c1 \/ place > 39 - c3 THEN TxtGreat ELSE TxtNinePm
        IN  Message(i, IF i % 2 = 0 THEN "Bob" ELSE "Carl", text, place * MsPerSecond, {})]

InitTopics ==
    /\ \/ \E n \in 0..MaxTopicMsgs :
              \E k \in [1..n -> TopicKinds], t \in [1..n -> TopicTimes] :
                  messages = TopicInput(n, k, t)
       \/ messages = WideInput
       \/ \E c1 \in EdgeCounts, c3 \in EdgeCounts : messages = EdgeInput(c1, c3)
    /\ hostIdentifier = ""
    /\ hostName = ""
    /\ hostQuestions = <<>>
    /\ questionAnswerers = <<>>
    /\ conversationThreads = <<>>
    /\ answerersMap = EmptyMap
    /\ activeCommunityMembers = <<>>
    /\ reports = <<>>
    /\ ran = <<>>
    /\ AsyncNotCalled
    /\ TopicsNotRun
    /\ flaggedMessages = <<>>
    /\ RoutesNotStarted

ExtractKeywordsCall ==
    /\ ran = <<>>
    /\ engineKeywords' = extractKeywords(messages)
    /\ ran' = Append(ran, "extractKeywords")
    /\ UNCHANGED <<messages, hostIdentifier, hostName, hostQuestions, questionAnswerers,
                   conversationThreads, answerersMap, activeCommunityMembers, reports>>
    /\ UNCHANGED <<engineClusters, engineTrends>>
    /\ UNCHANGED asyncVars
    /\ UNCHANGED flaggedMessages
    /\ UNCHANGED routeVars

ClusterByTopicCall ==
    /\ "extractKeywords" \in Range(ran)
    /\ "clusterByTopic" \notin Range(ran)
    /\ engineClusters' = clusterByTopic(messages, engineKeywords)
    /\ ran' = Append(ran, "clusterByTopic")
    /\ UNCHANGED <<messages, hostIdentifier, hostName, hostQuestions, questionAnswerers,
                   conversationThreads, answerersMap, activeCommunityMembers, reports>>
    /\ UNCHANGED <<engineKeywords, engineTrends>>
    /\ UNCHANGED asyncVars
    /\ UNCHANGED flaggedMessages
    /\ UNCHANGED routeVars

CalculateKeywordTrendsCall ==
    /\ "extractKeywords" \in Range(ran)
    /\ "calculateKeywordTrends" \notin Range(ran)
    /\ engineTrends' = calculateKeywordTrends(messages, engineKeywords)
    /\ ran' = Append(ran, "calculateKeywordTrends")
    /\ UNCHANGED <<messages, hostIdentifier, hostName, hostQuestions, questionAnswerers,
                   conversationThreads, answerersMap, activeCommunityMembers, reports>>
    /\ UNCHANGED <<engineKeywords, engineClusters>>
    /\ UNCHANGED asyncVars
    /\ UNCHANGED flaggedMessages
    /\ UNCHANGED routeVars

NextTopics ==
    \/ ExtractKeywordsCall
    \/ ClusterByTopicCall
    \/ CalculateKeywordTrendsCall

SpecTopics == InitTopics /\ [][NextTopics]_vars

---------------------------------------------------------------------------
(* Properties of the topic engine *)

\* positions of the messages whose lowercase text contains the keyword
Matching(keyword) ==
    {i \in 1..Len(messages) : Includes(ToLowerCase(messages[i].message), keyword)}

\* the keywords clusterByTopic looks at: positions in engineKeywords
FirstFifteen == 1..Min(15, Len(engineKeywords))

\* position of the first matching message of an author
FirstSeen(keyword, author) ==
    SetMin({i \in Matching(keyword) : messages[i].author = author})

\* the cluster is the one of the keyword
IsClusterOf(cluster, keyword) ==
    LET matching == Matching(keyword)
        authors == {messages[i].author : i \in matching}
        shown == cluster.topContributors
    IN  /\ cluster.topic = keyword
        /\ cluster.messageCount = Cardinality(matching)
        /\ cluster.messageCount >= 2
        /\ Len(shown) = Min(5, Cardinality(authors))
        /\ \A a \in 1..Len(shown) : shown[a] \in authors
        /\ \A a, b \in 1..Len(shown) :
               a < b => FirstSeen(keyword, shown[a]) < FirstSeen(keyword, shown[b])
        /\ \A other \in authors \ Range(shown) :
               \A a \in 1..Len(shown) :
                   FirstSeen(keyword, shown[a]) < FirstSeen(keyword, other)
        /\ \A i \in matching : /\ cluster.timeRange.start <= messages[i].timestamp
                                /\ messages[i].timestamp <= cluster.timeRange.end
        /\ \E i \in matching : cluster.timeRange.start = messages[i].timestamp
        /\ \E i \in matching : cluster.timeRange.end = messages[i].timestamp

\* C23: clusterByTopic emits exactly one cluster for each of the first 15
\* keywords that is part of the lowercase text of at least 2 messages and
\* none for another keyword; a cluster's messageCount is the number of the
\* matching messages, its contributors are at most 5 distinct authors as
\* first seen, its time range goes from the least to the greatest matching
\* timestamp, and the clusters are in non-increasing messageCount.
ClustersOfFirstFifteen ==
    "clusterByTopic" \in Range(ran) =>
        LET anchoring == {k \in FirstFifteen :
                             Cardinality(Matching(engineKeywords[k].keyword)) >= 2}
        IN  /\ Len(engineClusters) = Cardinality(anchoring)
            /\ \A k \in anchoring :
                   \E c \in 1..Len(engineClusters) :
                       engineClusters[c].topic = engineKeywords[k].keyword
            /\ \A c \in 1..Len(engineClusters) :
                   \E k \in anchoring :
                       IsClusterOf(engineClusters[c], engineKeywords[k].keyword)
            /\ \A c \in 1..(Len(engineClusters) - 1) :
                   engineClusters[c].messageCount >= engineClusters[c + 1].messageCount

\* more than fifteen keywords and more than five authors
CapsReached ==
    /\ "clusterByTopic" \in Range(ran)
    /\ Len(engineKeywords) > 15
    /\ Len(engineClusters) = 15
    /\ Len(engineClusters[1].topContributors) = 5
    /\ Cardinality({messages[i].author : i \in 1..Len(messages)}) = 6

\* clusters the sort has moved, with one message in both of them
ClustersWitness ==
    /\ "clusterByTopic" \in Range(ran)
    /\ Len(engineClusters) >= 2
    /\ engineClusters[1].messageCount > engineClusters[2].messageCount
    /\ \E j, k \in 1..Len(engineKeywords) :
           /\ j < k
           /\ engineKeywords[k].keyword = engineClusters[1].topic
           /\ engineKeywords[j].keyword = engineClusters[2].topic
    /\ \E i \in 1..Len(messages) :
           i \in Matching(engineClusters[1].topic) \cap Matching(engineClusters[2].topic)

\* the least c with 3 * c >= n
ThirdOf(n) == SetMin({c \in 0..n : 3 * c >= n})

\* the three periods, one after the other, are the messages in chronological
\* order, each once, and the first two have ceil(n/3) messages
PeriodsSplitCorpus ==
    LET p == Periods(messages)
        n == Len(messages)
        whole == p[1] \o p[2] \o p[3]
    IN  /\ Len(whole) = n
        /\ {whole[i].id : i \in 1..n} = {messages[i].id : i \in 1..n}
        /\ \A i \in 1..n : \E j \in 1..n : whole[i] = messages[j]
        /\ \A i \in 1..(n - 1) : whole[i].timestamp <= whole[i + 1].timestamp
        /\ Len(p[1]) = ThirdOf(n)
        /\ Len(p[2]) = ThirdOf(n)
        /\ Len(p[3]) = n - 2 * ThirdOf(n)

\* C25 as stated: for every corpus of n >= 3 messages the three periods are
\* contiguous, pairwise disjoint and non-empty, cover every message once,
\* and have ceil(n/3), ceil(n/3) and n - 2*ceil(n/3) messages.
ThreeNonEmptyPeriods ==
    ("calculateKeywordTrends" \in Range(ran) /\ Len(messages) >= 3) =>
        /\ PeriodsSplitCorpus
        /\ \A k \in 1..3 : Periods(messages)[k] # <<>>

\* C25 amended: for every corpus of n >= 3 messages the three periods are
\* contiguous and pairwise disjoint, cover every message once, and have
\* ceil(n/3), ceil(n/3) and n - 2*ceil(n/3) messages; the first two are
\* non-empty and the third is empty exactly when n = 4.
ThreePeriodsThirdMayBeEmpty ==
    ("calculateKeywordTrends" \in Range(ran) /\ Len(messages) >= 3) =>
        /\ PeriodsSplitCorpus
        /\ Periods(messages)[1] # <<>>
        /\ Periods(messages)[2] # <<>>
        /\ Periods(messages)[3] = <<>> <=> Len(messages) = 4

\* four messages out of order: two, two and none
EmptyThirdWitness ==
    /\ "calculateKeywordTrends" \in Range(ran)
    /\ Len(messages) = 4
    /\ messages # SortByTimestamp(messages)
    /\ Len(Periods(messages)[1]) = 2
    /\ Len(Periods(messages)[2]) = 2
    /\ Periods(messages)[3] = <<>>

\* number of the messages of a period whose lowercase text contains the keyword
CountIn(period, keyword) ==
    Cardinality({i \in 1..Len(period) : Includes(ToLowerCase(period[i].message), keyword)})

\* the class the three counts give
ClassOf(c1, c2, c3) ==
    IF 10 * (c3 - c1) > 3 * Max(c1, c2) THEN "rising"
    ELSE IF 10 * (c3 - c1) < -3 * Max(c1, c2) THEN "declining"
    ELSE "stable"

\* the trend is the one of the keyword
IsTrendOf(t, keyword) ==
    LET c1 == CountIn(Periods(messages)[1], keyword)
        c2 == CountIn(Periods(messages)[2], keyword)
        c3 == CountIn(Periods(messages)[3], keyword)
    IN  /\ t.keyword = keyword
        /\ t.frequency = c1 + c2 + c3
        /\ t.trend \in {"rising", "declining", "stable"}
        /\ t.trend = ClassOf(c1, c2, c3)

\* C24: for each of the first 20 keywords, with c1, c2, c3 the numbers of
\* messages containing it in the three periods, there is one trend, rising
\* iff 10*(c3-c1) > 3*max(c1,c2), declining iff 10*(c3-c1) < -3*max(c1,c2),
\* stable otherwise, of frequency c1+c2+c3; the trends are in non-increasing
\* frequency, and fewer than 2 messages give no trends.
TrendsOfFirstTwenty ==
    "calculateKeywordTrends" \in Range(ran) =>
        IF Len(messages) < 2 THEN engineTrends = <<>>
        ELSE LET firstTwenty == 1..Min(20, Len(engineKeywords))
             IN  /\ Len(engineTrends) = Cardinality(firstTwenty)
                 /\ \A k \in firstTwenty :
                        \E t \in 1..Len(engineTrends) :
                            IsTrendOf(engineTrends[t], engineKeywords[k].keyword)
                 /\ \A t \in 1..Len(engineTrends) :
                        \E k \in firstTwenty :
                            engineTrends[t].keyword = engineKeywords[k].keyword
                 /\ \A t \in 1..(Len(engineTrends) - 1) :
                        engineTrends[t].frequency >= engineTrends[t + 1].frequency

\* a keyword of 10 messages in the first period and 13 in the last is stable,
\* and so is its mirror image; a rise and a decline by more are not
TrendsWitness ==
    /\ "calculateKeywordTrends" \in Range(ran)
    /\ \E t \in 1..Len(engineTrends) :
           /\ engineTrends[t].trend = "stable"
           /\ CountIn(Periods(messages)[1], engineTrends[t].keyword) = 10
           /\ CountIn(Periods(messages)[2], engineTrends[t].keyword) = 0
           /\ CountIn(Periods(messages)[3], engineTrends[t].keyword) = 13

\* more than twenty keywords, twenty trends
TrendCapReached ==
    /\ "calculateKeywordTrends" \in Range(ran)
    /\ Len(engineKeywords) > 20
    /\ Len(engineTrends) = 20

\* the three classes in one result
ThreeClasses ==
    /\ "calculateKeywordTrends" \in Range(ran)
    /\ {engineTrends[t].trend : t \in 1..Len(engineTrends)} = {"rising", "declining", "stable"}

---------------------------------------------------------------------------
(* engagementAnalytics: analyzeEngagement, createEmptyAnalysis,            *)
(* calculateAverageResponseTime                                            *)

\* identifyHost(...) || 'Unknown Host'
UnknownHost == "Unknown Host"

\* topicClusters.slice(0, 5)
TopTopicsCap == 5

createEmptyAnalysis ==
    [hostQuestions |-> <<>>,
     questionAnswerers |-> <<>>,
     topicClusters |-> <<>>,
     trendingKeywords |-> <<>>,
     activeCommunityMembers |-> <<>>,
     conversationThreads |-> <<>>,
     totalQuestions |-> 0,
     answeredQuestions |-> 0,
     averageResponseTime |-> 0,
     topTopics |-> <<>>,
     hostName |-> UnknownHost]

calculateAverageResponseTime(hqs) ==
    LET answers == AllAnswers(hqs)
        totalResponseTime == FSum([i \in 1..Len(answers) |-> answers[i].responseTimeSeconds])
    IN  IF Len(hqs) = 0 THEN 0
        ELSE IF Len(answers) > 0
        THEN MathRound(FDiv(totalResponseTime, FInt(Len(answers))))
        ELSE 0

\* AnsweredCount counting the answers instead of the answered questions
AnsweredCountOfAnswers(hqs) == Len(AllAnswers(hqs))

\* hostQuestions.filter(q => q.wasAnswered).length
AnsweredCount(hqs) == Len(SelectSeq(hqs, LAMBDA q : q.wasAnswered))

\* BuildAnswerersMap setting 1 for every answerer
BuildAnswerersMapOfOnes(answerers) ==
    [a \in {answerers[i].author : i \in 1..Len(answerers)} |-> 1]

\* answerersMap.set(qa.author, qa.questionsAnswered) for every answerer
BuildAnswerersMap(answerers) ==
    [a \in {answerers[i].author : i \in 1..Len(answerers)} |->
        (CHOOSE qa \in Range(answerers) : qa.author = a).questionsAnswered]

\* Steps 1 to 3: host, questions and answers, answerers, topics
LocalAnalysis(msgs, manualHostName) ==
    LET identified == identifyHost(msgs, manualHostName)
        host == IF identified # NoHost THEN identified ELSE UnknownHost
        messagesWithHost == flagHostMessages(msgs, host)
        hqs == extractHostQuestions(messagesWithHost, host, DefaultTimeWindowSeconds)
        answerers == rankQuestionAnswerers(hqs, messagesWithHost)
        keywords == extractKeywords(messagesWithHost)
    IN  [hostName |-> host,
         messagesWithHost |-> messagesWithHost,
         hostQuestions |-> hqs,
         questionAnswerers |-> answerers,
         answerersMap |-> BuildAnswerersMap(answerers),
         topicClusters |-> clusterByTopic(messagesWithHost, keywords),
         trendingKeywords |-> calculateKeywordTrends(messagesWithHost, keywords)]

\* Steps 4 to 6 and the returned report, for the topic clusters in force
FinishAnalysis(local, topicClusters) ==
    LET threads == detectThreads(local.messagesWithHost, DefaultTimeWindowSeconds)
        top == Take(topicClusters, TopTopicsCap)
    IN  [hostQuestions |-> local.hostQuestions,
         questionAnswerers |-> local.questionAnswerers,
         topicClusters |-> topicClusters,
         trendingKeywords |-> local.trendingKeywords,
         activeCommunityMembers |->
             identifyActiveCommunityMembers(local.messagesWithHost, threads, local.answerersMap),
         conversationThreads |-> threads,
         totalQuestions |-> Len(local.hostQuestions),
         answeredQuestions |-> AnsweredCount(local.hostQuestions),
         averageResponseTime |-> calculateAverageResponseTime(local.hostQuestions),
         topTopics |-> [i \in 1..Len(top) |-> top[i].topic],
         hostName |-> local.hostName]

\* analyzeEngagement without the test of messages.length
analyzeEngagementUnguarded(msgs, manualHostName) ==
    LET local == LocalAnalysis(msgs, manualHostName)
    IN  FinishAnalysis(local, local.topicClusters)

\* the synchronous analyzeEngagement
analyzeEngagement(msgs, manualHostName) ==
    IF Len(msgs) = 0 THEN createEmptyAnalysis
    ELSE LET local == LocalAnalysis(msgs, manualHostName)
         IN  FinishAnalysis(local, local.topicClusters)

\* the functions one call of analyzeEngagement calls, in order
CallsOfAnalysis(msgs) ==
    IF Len(msgs) = 0 THEN <<"createEmptyAnalysis">>
    ELSE <<"identifyHost", "flagHostMessages", "extractHostQuestions",
           "rankQuestionAnswerers", "extractKeywords", "clusterByTopic",
           "calculateKeywordTrends", "detectThreads", "identifyActiveCommunityMembers",
           "calculateAverageResponseTime">>

\* ArrayAfterAnalysis if a component sorted the array it was given in place
ArrayAfterInPlaceSort(msgs) == SortByTimestamp(msgs)

\* The caller's array after a call: flagHostMessages maps it to new records
\* and every sort is made on a copy, so it is as before.
ArrayAfterAnalysis(msgs) == msgs

---------------------------------------------------------------------------
(* Specification of the synchronous orchestrator *)

\* author, text and badges of the messages
OrchestratorKinds ==
    {<<"Host", TxtWhatTime, {}>>, <<"Bob", TxtGreat, {}>>, <<"Carl", TxtGreat, {"owner"}>>}

\* milliseconds: a start, half a second and four minutes later
OrchestratorTimes == {0, 500, 240000}

\* the manual host name: not supplied, an author, nobody's name
HostIdentifiers == {"", "Host", "Zed"}

OrchestratorInput(n, k, t) == [i \in 1..n |-> Message(i, k[i][1], k[i][2], t[i], k[i][3])]

\* a question of the host, a reply of each viewer but the last a second
\* apart, a second question and the reply of the last viewer
ManyAnswerersInput ==
    LET n == Len(Viewers)
    IN  [i \in 1..(n + 2) |->
            IF i = 1 THEN Message(i, "Host", TxtWhatTime, 0, {})
            ELSE IF i <= n THEN Message(i, Viewers[i - 1], TxtNinePm, (i - 1) * MsPerSecond, {})
            ELSE IF i = n + 1 THEN Message(i, "Host", TxtIsItLive, n * MsPerSecond, {})
            ELSE Message(i, Viewers[n], TxtNinePm, (n + 1) * MsPerSecond, {})]

Init ==
    /\ \/ \E n \in 0..MaxMsgs :
              \E k \in [1..n -> OrchestratorKinds], t \in [1..n -> OrchestratorTimes] :
                  messages = OrchestratorInput(n, k, t)
       \/ messages = ManyAnswerersInput
    /\ hostIdentifier \in HostIdentifiers
    /\ hostName = ""
    /\ hostQuestions = <<>>
    /\ questionAnswerers = <<>>
    /\ conversationThreads = <<>>
    /\ answerersMap = EmptyMap
    /\ activeCommunityMembers = <<>>
    /\ reports = <<>>
    /\ ran = <<>>
    /\ AsyncNotCalled
    /\ TopicsNotRun
    /\ flaggedMessages = <<>>
    /\ RoutesNotStarted

\* messagesWithHost of a call that returned the report; none for an empty input
WorkingSet(msgs, report) ==
    IF Len(msgs) = 0 THEN <<>> ELSE flagHostMessages(msgs, report.hostName)

AnalyzeEngagementCall ==
    /\ Len(reports) < MaxCalls
    /\ LET report == analyzeEngagement(messages, hostIdentifier)
       IN  /\ reports' = Append(reports, report)
           /\ flaggedMessages' = WorkingSet(messages, report)
    /\ messages' = ArrayAfterAnalysis(messages)
    /\ ran' = CallsOfAnalysis(messages)
    /\ UNCHANGED <<hostIdentifier, hostName, hostQuestions, questionAnswerers,
                   conversationThreads, answerersMap, activeCommunityMembers>>
    /\ UNCHANGED asyncVars
    /\ UNCHANGED topicVars
    /\ UNCHANGED routeVars

Next == AnalyzeEngagementCall

Spec == Init /\ [][Next]_vars

---------------------------------------------------------------------------
(* Properties of the synchronous orchestrator *)

\* C6: for a non-empty input the report has answeredQuestions <=
\* totalQuestions, totalQuestions equal to the number of hostQuestions,
\* answeredQuestions equal to the number of hostQuestions with a non-empty
\* answers list, and averageResponseTime >= 0, 0 when no question has an
\* answer.
SummaryConsistent ==
    \A c \in 1..Len(reports) :
        LET r == reports[c]
        IN  Len(messages) > 0 =>
                /\ r.answeredQuestions <= r.totalQuestions
                /\ r.totalQuestions = Len(r.hostQuestions)
                /\ r.answeredQuestions =
                       Cardinality({i \in 1..Len(r.hostQuestions) :
                                       r.hostQuestions[i].answers # <<>>})
                /\ r.averageResponseTime >= 0
                /\ (\A i \in 1..Len(r.hostQuestions) : r.hostQuestions[i].answers = <<>>)
                       => r.averageResponseTime = 0

\* a report with two questions, only one of them answered
SummaryWitness ==
    \E c \in 1..Len(reports) :
        /\ reports[c].totalQuestions = 2
        /\ reports[c].answeredQuestions = 1
        /\ reports[c].averageResponseTime > 0

EmptyInputEmptyReport ==
    (Len(messages) = 0 /\ Len(reports) > 0) =>
        /\ ran = <<"createEmptyAnalysis">>
        /\ \A c \in 1..Len(reports) :
               /\ reports[c].hostQuestions = <<>>
               /\ reports[c].questionAnswerers = <<>>
               /\ reports[c].topicClusters = <<>>
               /\ reports[c].trendingKeywords = <<>>
               /\ reports[c].activeCommunityMembers = <<>>
               /\ reports[c].conversationThreads = <<>>
               /\ reports[c].topTopics = <<>>
               /\ reports[c].totalQuestions = 0
               /\ reports[c].answeredQuestions = 0
               /\ reports[c].averageResponseTime = 0
               /\ reports[c].hostName = "Unknown Host"

\* a report was returned for no message and a manual host identifier
EmptyInputWitness ==
    /\ Len(messages) = 0
    /\ hostIdentifier = "Host"
    /\ Len(reports) > 0

\* number of the answers the author gave, over all the questions of a report
AnswersGivenBy(r, author) ==
    Cardinality(UNION {{<<q, i>> : i \in {k \in 1..Len(r.hostQuestions[q].answers) :
                                              r.hostQuestions[q].answers[k].author = author}} :
                       q \in 1..Len(r.hostQuestions)})

\* C15: in every report, an author who gave answers has one Answerer entry,
\* whose questionsAnswered is the number of Answers of that author over
\* all HostQuestions, and the questionsAnswered metric of the author's
\* CommunityMember entry is the same number (0 for an author without
\* answers).
AnswerCountsAgree ==
    \A c \in 1..Len(reports) :
        LET r == reports[c]
        IN  /\ \A i \in 1..Len(r.questionAnswerers) :
                   /\ r.questionAnswerers[i].questionsAnswered
                          = AnswersGivenBy(r, r.questionAnswerers[i].author)
                   /\ \A j \in 1..Len(r.questionAnswerers) :
                          i # j => r.questionAnswerers[i].author # r.questionAnswerers[j].author
            /\ \A a \in InputAuthors :
                   AnswersGivenBy(r, a) > 0
                       => \E i \in 1..Len(r.questionAnswerers) : r.questionAnswerers[i].author = a
            /\ \A i \in 1..Len(r.activeCommunityMembers) :
                   r.activeCommunityMembers[i].metrics.questionsAnswered
                       = AnswersGivenBy(r, r.activeCommunityMembers[i].author)

\* an author answered two questions and is a community member, next to the
\* host who answered none
AnswerCountsWitness ==
    \E c \in 1..Len(reports) :
        /\ \E i \in 1..Len(reports[c].questionAnswerers) :
               reports[c].questionAnswerers[i].questionsAnswered = 2
        /\ \E i, j \in 1..Len(reports[c].activeCommunityMembers) :
               /\ reports[c].activeCommunityMembers[i].metrics.questionsAnswered = 2
               /\ reports[c].activeCommunityMembers[j].metrics.questionsAnswered = 0
               /\ reports[c].activeCommunityMembers[j].author = reports[c].hostName


---------------------------------------------------------------------------
(* aiTopicAnalysis: analyzeTopicsWithAI, from the Response body to the     *)
(* themes it returns                                                       *)

\* Math.min(500, messages.length)
SampleCap == 500

\* messages.slice(-sampleSize)
SampleMessages(msgs) == Drop(msgs, Len(msgs) - Min(SampleCap, Len(msgs)))

\* theme.keywords || []
ThemeKeywords(theme) == IF "keywords" \in DOMAIN theme THEN theme.keywords ELSE <<>>

\* the sample messages whose lowercase text contains some keyword of the theme
ThemeMessages(theme, sampleMessages) ==
    LET keywords == ThemeKeywords(theme)
    IN  SelectSeq(sampleMessages,
            LAMBDA msg : \E i \in 1..Len(keywords) :
                Includes(ToLowerCase(msg.message), ToLowerCase(keywords[i])))

\* new Date(Math.min(...timestamps)).toISOString() throws a RangeError when
\* timestamps is empty: Math.min() is Infinity
ThemeThrows(theme, sampleMessages) == ThemeMessages(theme, sampleMessages) = <<>>

\* the value of a property the object does not have; no text equals it
Undefined == <<"undefined">>

\* theme.topic
ThemeTopic(theme) == IF "topic" \in DOMAIN theme THEN theme.topic ELSE Undefined

ToThemeCluster(theme, sampleMessages) ==
    LET relatedMessages == ThemeMessages(theme, sampleMessages)
        timestamps == {relatedMessages[i].timestamp : i \in 1..Len(relatedMessages)}
    IN  [topic |-> ThemeTopic(theme),
         keywords |-> IF "keywords" \in DOMAIN theme THEN theme.keywords
                      ELSE <<ThemeTopic(theme)>>,
         messageCount |-> Len(relatedMessages),
         topContributors |->
             Take(Distinct([i \in 1..Len(relatedMessages) |-> relatedMessages[i].author]),
                  ContributorCap),
         timeRange |-> [start |-> SetMin(timestamps), end |-> SetMax(timestamps)]]

\* What analyzeTopicsWithAI does with the body of a response that is ok:
\* it throws (threw) or returns themes.  The body is a record: kind
\* "rejected" (response.json() rejects), "noChoices" (data.choices[0] is a
\* TypeError), "noContent", "unparsable" (JSON.parse throws) or "parsed",
\* the last with the themes of the parsed content (none when it has no
\* themes field).
ThemesOfBody(body, msgs) ==
    LET sampleMessages == SampleMessages(msgs)
    IN  IF body.kind # "parsed" THEN [threw |-> TRUE, themes |-> <<>>]
        ELSE IF \E i \in 1..Len(body.themes) : ThemeThrows(body.themes[i], sampleMessages)
        THEN [threw |-> TRUE, themes |-> <<>>]
        ELSE [threw |-> FALSE,
              themes |-> [i \in 1..Len(body.themes) |->
                             ToThemeCluster(body.themes[i], sampleMessages)]]

---------------------------------------------------------------------------
(* engagementAnalytics: the asynchronous analyzeEngagement                 *)

\* aiAnalysis.themes.slice(0, 10)
ThemeCap == 10

\* topicClusters.slice(0, 5) in the merge
LocalClusterCap == 5

\* MergedClusters with the keyword clusters ahead of the themes
MergedClustersLocalFirst(topicClusters, outcome) ==
    IF ~outcome.threw /\ Len(outcome.themes) > 0
    THEN Take(topicClusters, LocalClusterCap) \o Take(outcome.themes, ThemeCap)
    ELSE topicClusters

\* topicClusters after the try block
MergedClusters(topicClusters, outcome) ==
    IF ~outcome.threw /\ Len(outcome.themes) > 0
    THEN Take(outcome.themes, ThemeCap) \o Take(topicClusters, LocalClusterCap)
    ELSE topicClusters

---------------------------------------------------------------------------
(* Specification of the asynchronous orchestrator.  The program's steps    *)
(* are the call and the continuations of its two awaits; when and whether  *)
(* fetch and response.json() settle is the collaborator's choice.          *)

\* longest input of the asynchronous specification
MaxAsyncMsgs == 2

\* longest list of themes in a parsed answer
MaxThemes == 2

KwGreat == <<"g","r","e","a","t">>      \* "great"
KwTime  == <<"T","I","M","E">>          \* "TIME"
KwNone  == <<"z","z","z">>              \* "zzz"
TopicMood  == <<"m","o","o","d">>       \* "mood"
TopicClock == <<"c","l","o","c","k">>   \* "clock"

\* themes the collaborator may send: keywords found in a message, keywords
\* found in none, no keywords field, no topic field
Themes ==
    {[topic |-> TopicMood, keywords |-> <<KwGreat>>],
     [topic |-> TopicClock, keywords |-> <<KwNone, KwTime>>],
     [topic |-> TopicMood, keywords |-> <<KwNone>>],
     [topic |-> TopicClock],
     [keywords |-> <<KwGreat>>]}

DigitChars == <<"0","1","2","3","4","5","6","7","8","9">>

\* the topic "t01", "t02", ...
TopicNo(i) == <<"t", DigitChars[(i \div 10) + 1], DigitChars[(i % 10) + 1]>>

\* lengths of the long theme lists: the cap on the themes, and one more
ThemeRunSizes == {ThemeCap, ThemeCap + 1}

\* n themes of different topics, all with a keyword of the messages
ThemeRun(n) == [i \in 1..n |-> [topic |-> TopicNo(i), keywords |-> <<KwGreat>>]]

\* bodies the collaborator may send
Bodies ==
    {[kind |-> k] : k \in {"rejected", "noChoices", "noContent", "unparsable"}}
    \cup UNION {{[kind |-> "parsed", themes |-> th] : th \in [1..n -> Themes]} :
                n \in 0..MaxThemes}
    \cup {[kind |-> "parsed", themes |-> ThemeRun(n)] : n \in ThemeRunSizes}

\* two messages that give six keyword clusters, one more than the merge keeps
SixClusterInput ==
    <<Message(1, "Bob", TxtGreatLive, 0, {}), Message(2, "Carl", TxtGreatLive, 500, {})>>

\* a question once and a remark twice: a theme of the question has one
\* message, the keyword clusters of the remark have two
MixedCountInput ==
    <<Message(1, "Host", TxtWhatTime, 0, {}), Message(2, "Bob", TxtGreat, 500, {}),
      Message(3, "Carl", TxtGreat, 1000, {})>>

\* milliseconds: a start and half a second later
AsyncTimes == {0, 500}

\* the manual host name: not supplied, an author
AsyncHostIdentifiers == {"", "Host"}

InitAsync ==
    /\ \/ \E n \in 0..MaxAsyncMsgs :
              \E k \in [1..n -> OrchestratorKinds], t \in [1..n -> AsyncTimes] :
                  messages = OrchestratorInput(n, k, t)
       \/ messages \in {SixClusterInput, MixedCountInput}
    /\ hostIdentifier \in AsyncHostIdentifiers
    /\ apiKey \in BOOLEAN
    /\ hostName = ""
    /\ hostQuestions = <<>>
    /\ questionAnswerers = <<>>
    /\ conversationThreads = <<>>
    /\ answerersMap = EmptyMap
    /\ activeCommunityMembers = <<>>
    /\ reports = <<>>
    /\ ran = <<>>
    /\ pc = "idle"
    /\ localResults = NoLocal
    /\ response = NoResponse
    /\ data = NoBody
    /\ warned = FALSE
    /\ TopicsNotRun
    /\ flaggedMessages = <<>>
    /\ RoutesNotStarted

syncVars == <<messages, hostIdentifier, hostName, hostQuestions, questionAnswerers,
              conversationThreads, answerersMap, activeCommunityMembers, ran>>

\* Steps 4 to 6 and the return, with the topic clusters in force
ReturnReport(steps, topicClusters) ==
    /\ reports' = Append(reports, FinishAnalysis(steps, topicClusters))
    /\ pc' = "returned"

\* The call, up to the return or to the await of fetch
AnalyzeEngagementAsyncCall ==
    /\ pc = "idle"
    /\ IF Len(messages) = 0
       THEN /\ reports' = Append(reports, createEmptyAnalysis)
            /\ pc' = "returned"
            /\ UNCHANGED localResults
       ELSE LET steps == LocalAnalysis(messages, hostIdentifier)
            IN  /\ localResults' = steps
                /\ IF apiKey
                   THEN /\ pc' = "awaitFetch"
                        /\ UNCHANGED reports
                   ELSE ReturnReport(steps, steps.topicClusters)
    /\ UNCHANGED <<apiKey, response, data, warned>>
    /\ UNCHANGED syncVars
    /\ UNCHANGED topicVars
    /\ UNCHANGED flaggedMessages
    /\ UNCHANGED routeVars

\* fetch rejects (network error): analyzeTopicsWithAI rethrows, the
\* orchestrator's catch warns and the keyword clusters are kept
FetchRejects ==
    /\ pc = "awaitFetch"
    /\ warned' = TRUE
    /\ ReturnReport(localResults, localResults.topicClusters)
    /\ UNCHANGED <<apiKey, localResults, response, data>>
    /\ UNCHANGED syncVars
    /\ UNCHANGED topicVars
    /\ UNCHANGED flaggedMessages
    /\ UNCHANGED routeVars

\* fetch resolves with a Response: the code awaits response.json()
FetchResolves ==
    /\ pc = "awaitFetch"
    /\ response' \in {"ok", "notOk"}
    /\ pc' = "awaitJson"
    /\ UNCHANGED <<apiKey, localResults, data, warned, reports>>
    /\ UNCHANGED syncVars
    /\ UNCHANGED topicVars
    /\ UNCHANGED flaggedMessages
    /\ UNCHANGED routeVars

\* response.json() settles: for a response that is not ok the code throws
\* whatever the body; otherwise it maps the themes, and the orchestrator
\* merges them or warns
JsonSettles ==
    /\ pc = "awaitJson"
    /\ \E settled \in Bodies :
           LET outcome == IF response = "ok"
                          THEN ThemesOfBody(settled, localResults.messagesWithHost)
                          ELSE [threw |-> TRUE, themes |-> <<>>]
           IN  /\ data' = settled
               /\ warned' = outcome.threw
               /\ ReturnReport(localResults, MergedClusters(localResults.topicClusters, outcome))
    /\ UNCHANGED <<apiKey, localResults, response>>
    /\ UNCHANGED syncVars
    /\ UNCHANGED topicVars
    /\ UNCHANGED flaggedMessages
    /\ UNCHANGED routeVars

NextAsync ==
    \/ AnalyzeEngagementAsyncCall
    \/ FetchRejects
    \/ FetchResolves
    \/ JsonSettles

SpecAsync == InitAsync /\ [][NextAsync]_vars

\* The step of AnalyzeEngagementAsyncCall as pc shows it
CallRuns == pc = "idle" /\ pc' \in {"awaitFetch", "returned"}

\* The program takes its own step, the call runs to its return or to its
\* await; nothing obliges the collaborator to answer.
FairSpecAsync == SpecAsync /\ WF_pc(CallRuns)

---------------------------------------------------------------------------
(* Properties of the asynchronous orchestrator *)

\* C10: every call of the asynchronous analyzeEngagement on a non-empty
\* input eventually returns a report, even when the augmentation
\* collaborator never responds: a call that is waiting for fetch leads to
\* a call that has returned.
AsyncCallReturns == (pc = "awaitFetch") ~> (pc = "returned")

\* fetch rejected: the call returned without a Response
FetchRejected == pc = "returned" /\ apiKey /\ Len(messages) > 0 /\ response = NoResponse

\* the parsed content has a theme that is not of the shape asked for
\* (topic: string, keywords?: string[])
MalformedTheme(theme) == "topic" \notin DOMAIN theme

\* the collaborator failed: fetch rejected, the status was not a success,
\* the body was no JSON or had no content or unparsable content, the
\* content had a malformed theme, or it had no themes
CollaboratorFailed ==
    \/ FetchRejected
    \/ /\ pc = "returned"
       /\ response # NoResponse
       /\ \/ response = "notOk"
          \/ data.kind # "parsed"
          \/ data.themes = <<>>
          \/ \E i \in 1..Len(data.themes) : MalformedTheme(data.themes[i])

\* C11: when the augmentation collaborator fails (throws, non-success
\* status, unparsable or malformed content, no themes) the asynchronous
\* analyzeEngagement returns the report the synchronous analyzeEngagement
\* returns for the same input.
FailedAugmentationGivesSyncReport ==
    CollaboratorFailed => reports = <<analyzeEngagement(messages, hostIdentifier)>>

\* the call returned after analyzeTopicsWithAI returned themes
AugmentationSucceeded ==
    /\ pc = "returned"
    /\ response = "ok"
    /\ data.kind = "parsed"
    /\ Len(data.themes) >= 1
    /\ ~warned

\* C20: when augmentation succeeds with k >= 1 themes, topicClusters is the
\* first min(k, 10) supplied clusters in their order, then the first
\* min(5, L) of the L keyword clusters in their order, at most 15 entries;
\* questions, answerers, trends, threads, members, host and the counts of
\* the summary are those of the augmentation-free run.
MergeIsThemesThenLocal ==
    AugmentationSucceeded =>
        LET r == reports[1]
            plain == analyzeEngagement(messages, hostIdentifier)
            k == Len(data.themes)
            taken == Min(k, 10)
            kept == Min(5, Len(plain.topicClusters))
        IN  /\ Len(r.topicClusters) = taken + kept
            /\ Len(r.topicClusters) <= 15
            /\ \A i \in 1..taken :
                   /\ r.topicClusters[i].topic = ThemeTopic(data.themes[i])
                   /\ r.topicClusters[i].keywords = data.themes[i].keywords
                   /\ r.topicClusters[i].messageCount >= 1
            /\ \A j \in 1..kept : r.topicClusters[taken + j] = plain.topicClusters[j]
            /\ r.hostQuestions = plain.hostQuestions
            /\ r.questionAnswerers = plain.questionAnswerers
            /\ r.trendingKeywords = plain.trendingKeywords
            /\ r.conversationThreads = plain.conversationThreads
            /\ r.activeCommunityMembers = plain.activeCommunityMembers
            /\ r.hostName = plain.hostName
            /\ r.totalQuestions = plain.totalQuestions
            /\ r.answeredQuestions = plain.answeredQuestions
            /\ r.averageResponseTime = plain.averageResponseTime

\* eleven themes and six keyword clusters: ten and five are kept
MergeWitness ==
    /\ AugmentationSucceeded
    /\ Len(data.themes) = 11
    /\ Len(reports[1].topicClusters) = 15
    /\ reports[1].topicClusters[10].topic = TopicNo(10)
    /\ reports[1].topicClusters[11].topic = KwGreat

\* the fields of a ChatMessage the caller supplies
InputFields == {"id", "author", "message", "timestamp", "badges"}

AnswerersCutToTen ==
    \A c \in 1..Len(reports) : Len(reports[c].questionAnswerers) <= 10

\* number of clusters with a messageCount that count compares to by gt
\* (greater) or ge (greater or equal)
ClustersAbove(clusters, count, strictly) ==
    Cardinality({k \in 1..Len(clusters) :
                    IF strictly THEN clusters[k].messageCount > count
                    ELSE clusters[k].messageCount >= count})

\* topTopics names, place by place, a cluster whose messageCount is the
\* first, second, ... greatest of the clusters
IsTopByMessageCount(r) ==
    /\ Len(r.topTopics) = Min(5, Len(r.topicClusters))
    /\ \A i \in 1..Len(r.topTopics) :
           \E j \in 1..Len(r.topicClusters) :
               /\ r.topicClusters[j].topic = r.topTopics[i]
               /\ ClustersAbove(r.topicClusters, r.topicClusters[j].messageCount, TRUE) < i
               /\ i <= ClustersAbove(r.topicClusters, r.topicClusters[j].messageCount, FALSE)

\* C21: in every report, with or without successful augmentation, topTopics
\* is the topics of the (up to) five clusters of topicClusters with the
\* greatest messageCount, in non-increasing order of messageCount.
TopTopicsByClusterSize ==
    \A c \in 1..Len(reports) : IsTopByMessageCount(reports[c])

---------------------------------------------------------------------------
(* app/api/chat-api/route.ts: the stream that polls the YouTube Data API.   *)
(* chatApi is the closure of start(controller): the variables of the code, *)
(* pc (where the chain of startPolling and retryPolling stands), what the  *)
(* controller received (out, closeCalls, cancelled), the one-hour timer,   *)
(* and the history the properties read: failures (retryable failures       *)
(* since the last successful fetch), delays (the back-off delays since      *)
(* then), closedBy, outAtClose and requests.                                *)
(* A timer is "null", "scheduled" or "fired" (a handle whose callback ran). *)

\* every analytics variable, which the routes leave alone
analyticsVars == <<messages, hostIdentifier, hostName, hostQuestions, questionAnswerers,
                   conversationThreads, answerersMap, activeCommunityMembers, reports, ran,
                   asyncVars, topicVars, flaggedMessages>>

AnalyticsNotRun ==
    /\ messages = <<>>
    /\ hostIdentifier = ""
    /\ hostName = ""
    /\ hostQuestions = <<>>
    /\ questionAnswerers = <<>>
    /\ conversationThreads = <<>>
    /\ answerersMap = EmptyMap
    /\ activeCommunityMembers = <<>>
    /\ reports = <<>>
    /\ ran = <<>>
    /\ AsyncNotCalled
    /\ TopicsNotRun
    /\ flaggedMessages = <<>>

\* const MAX_RETRIES = 3 (in both routes)
MAX_RETRIES == 3

\* requests (getLiveChatId, fetchChatMessages) one stream may send
MaxRequests == 7

\* messages of one response
MaxBatch == 1

ConnectionFailed == "Connection failed after multiple retries"
NotLive == "YouTube Data API only works with LIVE streams, not replays."
QuotaExceeded == "YouTube API quota exceeded."

\* closeStream() without a message
NoMessage == "null"

\* Math.min(500 * Math.pow(2, retryCount - 1), 5000) with 500 * retryCount
RetryDelayLinear(retryCount) == Min(500 * retryCount, 5000)

\* Math.min(500 * Math.pow(2, retryCount - 1), 5000)
RetryDelay(retryCount) == Min(500 * (2 ^ (retryCount - 1)), 5000)

cleanup(s) == [s EXCEPT !.pollingInterval = "null", !.autoStopCheckInterval = "null"]

\* closeStream: enqueue and close throw on a cancelled stream, and the catch
\* swallows that
closeStream(s, errorMessage, cause) ==
    IF s.isClosed THEN s
    ELSE LET c == cleanup([s EXCEPT !.isClosed = TRUE])
             enqueueThrows == errorMessage # NoMessage /\ s.cancelled
         IN  [c EXCEPT !.out = IF errorMessage # NoMessage /\ ~s.cancelled
                                THEN Append(@, errorMessage) ELSE @,
                       !.closeCalls = IF enqueueThrows THEN @ ELSE @ + 1,
                       !.closedBy = cause,
                       !.closedWith = errorMessage,
                       !.outAtClose = Len(c.out) + (IF errorMessage # NoMessage /\ ~s.cancelled
                                                    THEN 1 ELSE 0)]

\* the chain of calls returns; start() then sets the one-hour timer
Returns(s) ==
    IF s.initial THEN [s EXCEPT !.pc = "idle", !.initial = FALSE, !.hourTimer = "scheduled"]
    ELSE [s EXCEPT !.pc = "idle"]

\* retryPolling up to its await of the delay
retryPolling(s) ==
    IF s.isClosed THEN Returns(s)
    ELSE LET counted == [s EXCEPT !.retryCount = @ + 1]
         IN  IF counted.retryCount > MAX_RETRIES
             THEN Returns(closeStream(counted, ConnectionFailed, "error"))
             ELSE [counted EXCEPT !.pc = "awaitDelay",
                                  !.delays = Append(@, RetryDelay(counted.retryCount))]

\* startPolling up to its first await
startPolling(s) ==
    IF s.isClosed THEN Returns(cleanup(s))
    ELSE IF ~s.liveChatId THEN [s EXCEPT !.pc = "awaitId", !.requests = @ + 1]
    ELSE [s EXCEPT !.pc = "awaitFetch", !.requests = @ + 1]

\* the loop over response.messages
Deliver(s, n) ==
    IF s.isClosed \/ n = 0 THEN s
    ELSE IF s.cancelled
    THEN [cleanup([s EXCEPT !.isClosed = TRUE]) EXCEPT !.closedBy = "cancel",
                                                        !.outAtClose = Len(s.out)]
    ELSE [s EXCEPT !.out = @ \o [i \in 1..n |-> "data"]]

\* startPolling after fetchChatMessages resolved with n messages
AfterFetch(s, n) ==
    LET reset == [s EXCEPT !.retryCount = 0, !.failures = 0, !.delays = <<>>]
        sent == Deliver(reset, n)
        checked == IF n > 0 /\ sent.autoStopCheckInterval = "null"
                   THEN [sent EXCEPT !.autoStopCheckInterval = "scheduled"]
                   ELSE sent
        polled == IF ~checked.isClosed
                  THEN [checked EXCEPT !.pollingInterval = "scheduled"]
                  ELSE checked
    IN  Returns(polled)

\* a retryable failure seen while the stream is open
Failed(s) == IF s.isClosed THEN s ELSE [s EXCEPT !.failures = @ + 1]

InitChatApi ==
    /\ AnalyticsNotRun
    /\ youtubei = NoStream
    /\ chatApi = [pc |-> "start", isClosed |-> FALSE, pollingInterval |-> "null",
                  autoStopCheckInterval |-> "null", liveChatId |-> FALSE, retryCount |-> 0,
                  out |-> <<>>, closeCalls |-> 0, cancelled |-> FALSE,
                  hourTimer |-> "null", initial |-> TRUE, failures |-> 0, delays |-> <<>>,
                  closedBy |-> "none", closedWith |-> NoMessage, outAtClose |-> 0,
                  requests |-> 0]

\* await startPolling() of start(controller)
StartCalls ==
    /\ chatApi.pc = "start"
    /\ chatApi' = startPolling(chatApi)
    /\ UNCHANGED <<analyticsVars, youtubei>>

GetLiveChatIdResolves ==
    /\ chatApi.pc = "awaitId"
    /\ chatApi.requests < MaxRequests
    /\ chatApi' = [chatApi EXCEPT !.liveChatId = TRUE, !.pc = "awaitFetch",
                                  !.requests = @ + 1]
    /\ UNCHANGED <<analyticsVars, youtubei>>

\* getLiveChatId rejects: the stream has ended (notLive), or another error
GetLiveChatIdRejects ==
    /\ chatApi.pc = "awaitId"
    /\ \E notLive \in BOOLEAN :
           chatApi' = IF notLive THEN Returns(closeStream(chatApi, NotLive, "error"))
                      ELSE retryPolling(Failed(chatApi))
    /\ UNCHANGED <<analyticsVars, youtubei>>

FetchChatMessagesResolves ==
    /\ chatApi.pc = "awaitFetch"
    /\ \E n \in 0..MaxBatch : chatApi' = AfterFetch(chatApi, n)
    /\ UNCHANGED <<analyticsVars, youtubei>>

\* fetchChatMessages rejects: quota or 403, or another error
FetchChatMessagesRejects ==
    /\ chatApi.pc = "awaitFetch"
    /\ \E quota \in BOOLEAN :
           chatApi' = IF chatApi.isClosed THEN Returns(chatApi)
                      ELSE IF quota THEN Returns(closeStream(chatApi, QuotaExceeded, "error"))
                      ELSE retryPolling(Failed(chatApi))
    /\ UNCHANGED <<analyticsVars, youtubei>>

\* the delay of retryPolling is over: await startPolling()
DelayElapses ==
    /\ chatApi.pc = "awaitDelay"
    /\ chatApi.requests < MaxRequests
    /\ chatApi' = startPolling(chatApi)
    /\ UNCHANGED <<analyticsVars, youtubei>>

\* the timeout of the next poll fires
PollTimerFires ==
    /\ chatApi.pc = "idle"
    /\ chatApi.pollingInterval = "scheduled"
    /\ chatApi.requests < MaxRequests
    /\ chatApi' = startPolling([chatApi EXCEPT !.pollingInterval = "fired"])
    /\ UNCHANGED <<analyticsVars, youtubei>>

\* the interval of startAutoStopCheck ticks; stalled: no message for
\* AUTO_STOP_MS
AutoStopTicks ==
    /\ chatApi.pc # "none"
    /\ chatApi.autoStopCheckInterval = "scheduled"
    /\ \E stalled \in BOOLEAN :
           chatApi' = IF stalled THEN closeStream(chatApi, NoMessage, "autoStop") ELSE chatApi
    /\ UNCHANGED <<analyticsVars, youtubei>>

\* the one-hour timeout fires
HourTimerFires ==
    /\ chatApi.pc # "none"
    /\ chatApi.hourTimer = "scheduled"
    /\ chatApi' =
           IF chatApi.isClosed THEN [chatApi EXCEPT !.hourTimer = "fired"]
           ELSE [cleanup(chatApi) EXCEPT !.hourTimer = "fired", !.isClosed = TRUE,
                                         !.closeCalls = @ + 1, !.closedBy = "hourLimit",
                                         !.outAtClose = Len(chatApi.out)]
    /\ UNCHANGED <<analyticsVars, youtubei>>

\* the client cancels the stream: from now on enqueue and close throw
ClientCancels ==
    /\ chatApi.pc # "none"
    /\ ~chatApi.cancelled
    /\ chatApi.closeCalls = 0
    /\ chatApi' = [chatApi EXCEPT !.cancelled = TRUE]
    /\ UNCHANGED <<analyticsVars, youtubei>>

NextChatApi ==
    \/ StartCalls
    \/ GetLiveChatIdResolves
    \/ GetLiveChatIdRejects
    \/ FetchChatMessagesResolves
    \/ FetchChatMessagesRejects
    \/ DelayElapses
    \/ PollTimerFires
    \/ AutoStopTicks
    \/ HourTimerFires
    \/ ClientCancels

SpecChatApi == InitChatApi /\ [][NextChatApi]_vars

---------------------------------------------------------------------------
(* Properties of the chat-api route *)

\* C29: once the stream has been closed by an error, auto-stop or the
\* one-hour limit it stays quiescent: no further message is enqueued,
\* controller.close is not called a second time, and no poll timer or
\* auto-stop timer remains or becomes scheduled, even when a poll request in
\* flight at the closing completes afterwards with messages.
ClosedStreamIsQuiescent ==
    chatApi.closedBy \in {"error", "autoStop", "hourLimit"} =>
        /\ Len(chatApi.out) = chatApi.outAtClose
        /\ chatApi.closeCalls <= 1
        /\ chatApi.pollingInterval # "scheduled"
        /\ chatApi.autoStopCheckInterval # "scheduled"

\* C30: retryCount is 0 after every successful fetch and never exceeds 4;
\* the stream is closed with 'Connection failed after multiple retries'
\* exactly when a fourth consecutive retryable failure occurs without a
\* successful fetch in between, the three retries before it being delayed
\* by 500, 1000 and 2000 ms in that order.
RetriesAreCounted ==
    chatApi.pc # "none" =>
        /\ chatApi.retryCount \in 0..4
        /\ chatApi.failures = 0 => chatApi.retryCount = 0
        /\ (chatApi.closedWith = ConnectionFailed) <=> (chatApi.failures = 4)
        /\ chatApi.failures <= 4
        /\ chatApi.delays = SubSeq(<<500, 1000, 2000>>, 1, Min(3, chatApi.failures))
        /\ chatApi.closedWith = ConnectionFailed =>
               /\ chatApi.isClosed
               /\ chatApi.delays = <<500, 1000, 2000>>
               /\ chatApi.cancelled \/ chatApi.out[Len(chatApi.out)] = ConnectionFailed

\* one failure, a fetch that delivered a message, then four failures in a row
RetriesWitness ==
    /\ chatApi.pc = "idle"
    /\ chatApi.closedWith = ConnectionFailed
    /\ chatApi.requests = MaxRequests
    /\ chatApi.out = <<"data", ConnectionFailed>>
    /\ chatApi.retryCount = 4

---------------------------------------------------------------------------
(* unnamed/part_006: the stream that reads the live chat through youtubei.  *)
(* youtubei is the closure of start(controller): isClosed, retryCount,     *)
(* liveChat (0 for null, else the number of a connection),                  *)
(* stallCheckInterval ("null", "scheduled" or "cleared"), the connections   *)
(* getLiveChat has returned (conns: "started" from the call of start() to   *)
(* the call of stop(), then "stopped"; "ended" after its end event), the   *)
(* calls of retryChat, startChat and cleanupChat that stand at an await     *)
(* (tasks), the connections whose messages were enqueued (delivered), the   *)
(* closing chunks (notices) and the calls of controller.close.             *)
(* Only a started connection emits events.                                  *)

\* connections one stream may open
MaxConns == 3

\* calls that may stand at an await at once
MaxTasks == 2

\* messages one stream may deliver
MaxDelivered == 2

RemoveAt(seq, i) == SubSeq(seq, 1, i - 1) \o SubSeq(seq, i + 1, Len(seq))

\* what follows `await cleanupChat()`: the delay of retryChat, the
\* controller.close() of retryChat, or nothing (cleanupChat() not awaited)
Continue(s, next) ==
    IF next = "delay" THEN [s EXCEPT !.tasks = Append(@, [at |-> "delay"])]
    ELSE IF next = "close" THEN [s EXCEPT !.closeCalls = @ + 1]
    ELSE s

\* cleanupChat after the await of liveChat.stop()
AfterStop(s) ==
    [s EXCEPT !.liveChat = 0,
              !.stallCheckInterval = IF @ = "null" THEN "null" ELSE "cleared"]

\* cleanupChat up to its await: liveChat.stop() is called; with no liveChat
\* it runs to its end
cleanupChat(s, next) ==
    IF s.liveChat # 0
    THEN [s EXCEPT !.conns[s.liveChat] = IF @ = "started" THEN "stopped" ELSE @,
                   !.tasks = Append(@, [at |-> "stop", next |-> next])]
    ELSE Continue(AfterStop(s), next)

\* retryChat up to its first await
retryChat(s) ==
    IF s.isClosed THEN s
    ELSE LET counted == [s EXCEPT !.retryCount = @ + 1]
         IN  IF counted.retryCount > MAX_RETRIES
             THEN cleanupChat([counted EXCEPT !.notices = Append(@, ConnectionFailed),
                                              !.isClosed = TRUE], "close")
             ELSE cleanupChat(counted, "delay")

\* startChat up to its await of youtube.getInfo
startChat(s) ==
    IF s.isClosed THEN s ELSE [s EXCEPT !.tasks = Append(@, [at |-> "getInfo"])]

\* an end chunk, isClosed, cleanupChat() not awaited, controller.close()
EndStream(s) ==
    LET ended == cleanupChat([s EXCEPT !.notices = Append(@, "end"), !.isClosed = TRUE], "none")
    IN  [ended EXCEPT !.closeCalls = @ + 1]

\* the connections that are started and not stopped
Started(s) == {c \in 1..Len(s.conns) : s.conns[c] = "started"}

InitYoutubei ==
    /\ AnalyticsNotRun
    /\ chatApi = NoStream
    /\ youtubei = [pc |-> "create", isClosed |-> FALSE, retryCount |-> 0, liveChat |-> 0,
                   stallCheckInterval |-> "null", conns |-> <<>>, tasks |-> <<>>,
                   delivered |-> <<>>, notices |-> <<>>, closeCalls |-> 0]

\* await Innertube.create() resolves: await startChat()
InnertubeCreateResolves ==
    /\ youtubei.pc = "create"
    /\ youtubei' = startChat([youtubei EXCEPT !.pc = "running"])
    /\ UNCHANGED <<analyticsVars, chatApi>>

InnertubeCreateRejects ==
    /\ youtubei.pc = "create"
    /\ youtubei' = [youtubei EXCEPT !.pc = "running", !.closeCalls = @ + 1,
                                    !.notices = Append(@, "Failed to initialize scraper")]
    /\ UNCHANGED <<analyticsVars, chatApi>>

\* getInfo resolves and getLiveChat returns a connection: handlers,
\* startStallCheck and the call of liveChat.start()
GetInfoResolves ==
    /\ \E i \in 1..Len(youtubei.tasks) :
           /\ youtubei.tasks[i].at = "getInfo"
           /\ Len(youtubei.conns) < MaxConns
           /\ youtubei' =
                  [youtubei EXCEPT !.liveChat = Len(youtubei.conns) + 1,
                                   !.conns = Append(@, "started"),
                                   !.retryCount = 0,
                                   !.stallCheckInterval = "scheduled",
                                   !.tasks = Append(RemoveAt(@, i),
                                                    [at |-> "start",
                                                     conn |-> Len(youtubei.conns) + 1])]
    /\ UNCHANGED <<analyticsVars, chatApi>>

\* getInfo resolves and the video has no live chat
GetInfoWithoutChat ==
    /\ \E i \in 1..Len(youtubei.tasks) :
           /\ youtubei.tasks[i].at = "getInfo"
           /\ youtubei' =
                  [youtubei EXCEPT !.liveChat = 0,
                                   !.notices = Append(@, "No live chat found for this video."),
                                   !.isClosed = TRUE,
                                   !.closeCalls = @ + 1,
                                   !.tasks = RemoveAt(@, i)]
    /\ UNCHANGED <<analyticsVars, chatApi>>

\* getInfo rejects: the catch of startChat
GetInfoRejects ==
    /\ \E i \in 1..Len(youtubei.tasks) :
           /\ youtubei.tasks[i].at = "getInfo"
           /\ youtubei' = retryChat([youtubei EXCEPT !.tasks = RemoveAt(@, i)])
    /\ UNCHANGED <<analyticsVars, chatApi>>

\* await liveChat.start() resolves: startChat returns
LiveChatStartResolves ==
    /\ \E i \in 1..Len(youtubei.tasks) :
           /\ youtubei.tasks[i].at = "start"
           /\ youtubei' = [youtubei EXCEPT !.tasks = RemoveAt(@, i)]
    /\ UNCHANGED <<analyticsVars, chatApi>>

\* await liveChat.start() rejects: the connection did not start; the catch
\* of startChat
LiveChatStartRejects ==
    /\ \E i \in 1..Len(youtubei.tasks) :
           /\ youtubei.tasks[i].at = "start"
           /\ youtubei.conns[youtubei.tasks[i].conn] = "started"
           /\ youtubei' =
                  retryChat([youtubei EXCEPT !.tasks = RemoveAt(@, i),
                                             !.conns[youtubei.tasks[i].conn] = "stopped"])
    /\ UNCHANGED <<analyticsVars, chatApi>>

\* await liveChat.stop() settles: the rest of cleanupChat and what follows it
LiveChatStopSettles ==
    /\ \E i \in 1..Len(youtubei.tasks) :
           /\ youtubei.tasks[i].at = "stop"
           /\ youtubei' = Continue(AfterStop([youtubei EXCEPT !.tasks = RemoveAt(@, i)]),
                                   youtubei.tasks[i].next)
    /\ UNCHANGED <<analyticsVars, chatApi>>

\* the delay of retryChat is over: await startChat()
BackoffElapses ==
    /\ \E i \in 1..Len(youtubei.tasks) :
           /\ youtubei.tasks[i].at = "delay"
           /\ youtubei' = startChat([youtubei EXCEPT !.tasks = RemoveAt(@, i)])
    /\ UNCHANGED <<analyticsVars, chatApi>>

\* a started connection emits chat-update with one message
ChatUpdateEvent ==
    /\ \E c \in Started(youtubei) :
           /\ Len(youtubei.delivered) < MaxDelivered
           /\ youtubei' = IF youtubei.isClosed THEN youtubei
                          ELSE [youtubei EXCEPT !.delivered = Append(@, c)]
    /\ UNCHANGED <<analyticsVars, chatApi>>

\* a started connection emits error: fatal (404, Invalid, Unauthorized,
\* status code 400) or to be retried
ErrorEvent ==
    /\ \E c \in Started(youtubei), fatal \in BOOLEAN :
           /\ Len(youtubei.tasks) < MaxTasks
           /\ youtubei' = IF youtubei.isClosed THEN youtubei
                          ELSE IF fatal THEN EndStream(youtubei)
                          ELSE retryChat(youtubei)
    /\ UNCHANGED <<analyticsVars, chatApi>>

\* a started connection emits end
EndEvent ==
    /\ \E c \in Started(youtubei) :
           /\ Len(youtubei.tasks) < MaxTasks
           /\ youtubei' = IF youtubei.isClosed THEN [youtubei EXCEPT !.conns[c] = "ended"]
                          ELSE EndStream([youtubei EXCEPT !.conns[c] = "ended"])
    /\ UNCHANGED <<analyticsVars, chatApi>>

\* the interval of startStallCheck ticks; stalled: no message for
\* STALL_TIMEOUT
StallCheckTicks ==
    /\ youtubei.pc = "running"
    /\ youtubei.stallCheckInterval = "scheduled"
    /\ Len(youtubei.tasks) < MaxTasks
    /\ \E stalled \in BOOLEAN :
           youtubei' = IF stalled THEN retryChat(youtubei) ELSE youtubei
    /\ UNCHANGED <<analyticsVars, chatApi>>

NextYoutubei ==
    \/ InnertubeCreateResolves
    \/ InnertubeCreateRejects
    \/ GetInfoResolves
    \/ GetInfoWithoutChat
    \/ GetInfoRejects
    \/ LiveChatStartResolves
    \/ LiveChatStartRejects
    \/ LiveChatStopSettles
    \/ BackoffElapses
    \/ ChatUpdateEvent
    \/ ErrorEvent
    \/ EndEvent
    \/ StallCheckTicks

SpecYoutubei == InitYoutubei /\ [][NextYoutubei]_vars

---------------------------------------------------------------------------
(* Properties of the youtubei route *)

\* C28: under every interleaving of error events, stall-timer ticks, retry
\* delays and connection start-ups, at most one live-chat connection is
\* started and not yet stopped: concurrent calls of retryChat never leave
\* two connections delivering messages to the same stream.
AtMostOneLiveChat ==
    youtubei.pc # "none" => Cardinality(Started(youtubei)) <= 1

=============================================================================
